---------------------------- MODULE Spec2Model ----------------------------
(***************************************************************************)
(* A model of the document retrieval engine of the realtime console:       *)
(*   src/src/lib/documentProcessor.js   DocumentProcessor                  *)
(*   src/unnamed/part_001               RAGService (lib/ragService.js)     *)
(*   src/src/components/DocumentUploader.tsx   processFiles                *)
(*   src/src/pages/ConsolePage.tsx      the search_documents tool handler  *)
(*                                                                         *)
(* JavaScript strings are TLA+ strings; Len, \o, SubSeq, Head and Tail act *)
(* on them character by character.  A JavaScript array is a sequence, and  *)
(* a Map is a sequence of entries in insertion order (the order in which   *)
(* a Map is iterated).                                                     *)
(***************************************************************************)
EXTENDS Integers, Sequences, FiniteSets, TLC

(***************************************************************************)
(* Integers and sequences                                                  *)
(***************************************************************************)
Min(S) == CHOOSE x \in S : \A y \in S : x <= y

Max(S) == CHOOSE x \in S : \A y \in S : x >= y

MinOf(a, b) == IF a <= b THEN a ELSE b

MaxOf(a, b) == IF a >= b THEN a ELSE b

Range(seq) == {seq[i] : i \in 1..Len(seq)}

\* Array.prototype.slice(start, end) for integer arguments.
JsSlice(seq, start, end) ==
  LET n == Len(seq)
      from == IF start < 0 THEN MaxOf(n + start, 0) ELSE MinOf(start, n)
      to == IF end < 0 THEN MaxOf(n + end, 0) ELSE MinOf(end, n)
  IN SubSeq(seq, from + 1, to)

\* Array.prototype.slice(start): to the end of the array.
JsSliceFrom(seq, start) == JsSlice(seq, start, Len(seq))

RECURSIVE Join(_, _)
\* Array.prototype.join(sep) of an array of strings, by halves.
Join(seq, sep) ==
  IF Len(seq) = 0 THEN ""
  ELSE IF Len(seq) = 1 THEN seq[1]
  ELSE LET h == Len(seq) \div 2
       IN Join(SubSeq(seq, 1, h), sep) \o sep
            \o Join(SubSeq(seq, h + 1, Len(seq)), sep)

RECURSIVE Dedupe(_)
\* [...new Set(array)]: the first occurrence of each element, in order, by
\* halves.
Dedupe(seq) ==
  IF Len(seq) <= 1 THEN seq
  ELSE LET h == Len(seq) \div 2
           left == Dedupe(SubSeq(seq, 1, h))
           right == Dedupe(SubSeq(seq, h + 1, Len(seq)))
       IN left \o SelectSeq(right, LAMBDA x : x \notin Range(left))

(***************************************************************************)
(* Characters and strings                                                  *)
(***************************************************************************)
Chr(s, i) == SubSeq(s, i, i)

\* The ASCII letters toLowerCase() changes.  Outside ASCII it changes more
\* (U+212A to k, U+0130 to i and U+0307, ...); no text here holds one.
UpperLetters == "ABCDEFGHIJKLMNOPQRSTUVWXYZ"

LowerLetters == "abcdefghijklmnopqrstuvwxyz"

Digits == "0123456789"

\* Texts are TLA+ strings, and a TLA+ string holds ASCII characters only, so
\* every text of this development is ASCII.  On ASCII text the regular
\* expression class \s and trim() match exactly these six characters: the
\* five with an escape and U+000B (line tabulation), written as itself.
\* The nineteen other code units of \s (U+00A0, U+1680, U+2000 to U+200A,
\* U+2028, U+2029, U+202F, U+205F, U+3000, U+FEFF) occur in no text here.
WhiteSpace ==
  {" ", "\t", "\n", "\r", "\f", ""}

\* The characters the regular expression class \w matches.
WordChars ==
  {Chr(UpperLetters, i) : i \in 1..Len(UpperLetters)}
    \cup {Chr(LowerLetters, i) : i \in 1..Len(LowerLetters)}
    \cup {Chr(Digits, i) : i \in 1..Len(Digits)} \cup {"_"}

\* The characters of the sentence-splitting class [.!?].
SentenceEnd == {".", "!", "?"}

LowerOf ==
  [c \in {Chr(UpperLetters, i) : i \in 1..Len(UpperLetters)} |->
     Chr(LowerLetters, CHOOSE i \in 1..Len(UpperLetters) : Chr(UpperLetters, i) = c)]

LowerChar(c) == IF c \in DOMAIN LowerOf THEN LowerOf[c] ELSE c

RECURSIVE ToLowerCase(_)
\* String.prototype.toLowerCase on ASCII text, character by character.
ToLowerCase(s) ==
  IF Len(s) = 0 THEN ""
  ELSE IF Len(s) = 1 THEN LowerChar(s)
  ELSE LET h == Len(s) \div 2
       IN ToLowerCase(SubSeq(s, 1, h)) \o ToLowerCase(SubSeq(s, h + 1, Len(s)))

RECURSIVE StripNonWord(_)
\* text.replace(/[^\w\s]/g, ''): drop every character that is neither a
\* word character nor white space.
StripNonWord(s) ==
  IF Len(s) = 0 THEN ""
  ELSE IF Len(s) = 1
    THEN IF s \in WordChars \cup WhiteSpace THEN s ELSE ""
  ELSE LET h == Len(s) \div 2
       IN StripNonWord(SubSeq(s, 1, h)) \o StripNonWord(SubSeq(s, h + 1, Len(s)))

RECURSIVE TrimStart(_)
\* String.prototype.trimStart, by halves.
TrimStart(s) ==
  IF Len(s) = 0 THEN ""
  ELSE IF Len(s) = 1 THEN IF s \in WhiteSpace THEN "" ELSE s
  ELSE LET h == Len(s) \div 2
           left == TrimStart(SubSeq(s, 1, h))
       IN IF left = "" THEN TrimStart(SubSeq(s, h + 1, Len(s)))
          ELSE left \o SubSeq(s, h + 1, Len(s))

RECURSIVE TrimEnd(_)
\* String.prototype.trimEnd, by halves.
TrimEnd(s) ==
  IF Len(s) = 0 THEN ""
  ELSE IF Len(s) = 1 THEN IF s \in WhiteSpace THEN "" ELSE s
  ELSE LET h == Len(s) \div 2
           right == TrimEnd(SubSeq(s, h + 1, Len(s)))
       IN IF right = "" THEN TrimEnd(SubSeq(s, 1, h))
          ELSE SubSeq(s, 1, h) \o right

\* String.prototype.trim.
Trim(s) == TrimEnd(TrimStart(s))

RECURSIVE SplitOn(_, _)
\* The pieces of s cut at every single character of seps: s.split(' ') is
\* SplitOn(s, {" "}); empty pieces are kept.  By halves: the last piece of
\* the left half and the first piece of the right half are one piece.
SplitOn(s, seps) ==
  IF Len(s) = 0 THEN <<"">>
  ELSE IF Len(s) = 1 THEN (IF s \in seps THEN <<"", "">> ELSE <<s>>)
  ELSE LET h == Len(s) \div 2
           left == SplitOn(SubSeq(s, 1, h), seps)
           right == SplitOn(SubSeq(s, h + 1, Len(s)), seps)
       IN SubSeq(left, 1, Len(left) - 1)
            \o <<left[Len(left)] \o right[1]>> \o Tail(right)

SplitChar(s, c) == SplitOn(s, {c})

\* s.split(/[seps]+/): a run of separators cuts once, so the only empty
\* pieces are a leading one (s starts with a separator) and a trailing one
\* (s ends with a separator); the empty string gives one empty piece.
SplitRuns(s, seps) ==
  IF s = "" THEN <<"">>
  ELSE LET pieces == SelectSeq(SplitOn(s, seps), LAMBDA p : p # "")
           lead == IF Chr(s, 1) \in seps THEN <<"">> ELSE <<>>
           trail == IF Chr(s, Len(s)) \in seps THEN <<"">> ELSE <<>>
       IN IF pieces = <<>> THEN <<"", "">> ELSE lead \o pieces \o trail


(***************************************************************************)
(* DocumentProcessor: chunking                                             *)
(***************************************************************************)
\* createChunks' default chunkSize.
DefaultChunkSize == 500

\* createChunks' default overlap.
DefaultOverlap == 100

\* The word count of the running chunk past which the page counter moves.
PageWords == 300

\* content.split(/[.!?]+/).filter(s => s.trim().length > 0)
Sentences(content) ==
  SelectSeq(SplitRuns(content, SentenceEnd), LAMBDA s : Len(Trim(s)) > 0)

\* An id that counts the chunks from 0: `${fileName}_chunk_${chunks.length}`.
ChunkIdFromZero(fileName, n) == fileName \o "_chunk_" \o ToString(n - 1)

\* `${metadata.fileName}_chunk_${n}`
ChunkId(fileName, n) == fileName \o "_chunk_" \o ToString(n)

\* fileName.split('.').pop(): the text after the last dot.
FileExt(fileName) ==
  LET parts == SplitChar(fileName, ".") IN parts[Len(parts)]

\* The chunk object pushed by createChunks.  metadata.processedAt, a wall
\* clock reading that nothing reads back, is left out.
MakeChunk(fileName, n, text, pageNum) ==
  [id |-> ChunkId(fileName, n),
   content |-> Trim(text),
   fileName |-> fileName,
   fileType |-> FileExt(fileName),
   pageNum |-> pageNum,
   chunkIndex |-> n]

\* words.slice(-Math.floor(overlap / 5)); slice(-0) is slice(0).
OverlapWords(currentChunk, overlap) ==
  JsSliceFrom(SplitChar(currentChunk, " "), 0 - (overlap \div 5))

\* A new running chunk made of the overlap words alone: the sentence that
\* did not fit is forgotten.
StartChunkOverlapOnly(currentChunk, sentence, overlap) ==
  Join(OverlapWords(currentChunk, overlap), " ")

\* The running chunk after a chunk was pushed: the overlap words of the
\* pushed one, then the sentence.
StartChunk(currentChunk, sentence, overlap) ==
  Join(OverlapWords(currentChunk, overlap), " ") \o " " \o sentence

\* A page counter kept per chunk: it is the first page again whenever the
\* running chunk is short.
NextPagePerChunk(pageNum, cur) ==
  IF Len(SplitChar(cur, " ")) > PageWords THEN pageNum + 1 ELSE 1

\* The page counter after a turn of the loop that left the running chunk
\* at cur: it moves when cur.split(' ') has more than 300 pieces.
NextPage(pageNum, cur) ==
  IF Len(SplitChar(cur, " ")) > PageWords THEN pageNum + 1 ELSE pageNum

\* One turn of createChunks' loop over the sentences: st is the loop's
\* state [chunks, currentChunk, pageNum], raw the sentence before trimming.
ChunkStep(st, raw, fileName, chunkSize, overlap) ==
  LET sentence == Trim(raw)
      split == Len(st.currentChunk) + Len(sentence) > chunkSize
                 /\ Len(st.currentChunk) > 0
      chunks == IF split
                  THEN Append(st.chunks,
                              MakeChunk(fileName, Len(st.chunks) + 1,
                                        st.currentChunk, st.pageNum))
                  ELSE st.chunks
      cur == IF split
               THEN StartChunk(st.currentChunk, sentence, overlap)
               ELSE st.currentChunk
                      \o (IF st.currentChunk # "" THEN " " ELSE "") \o sentence
      page == NextPage(st.pageNum, cur)
  IN [chunks |-> chunks, currentChunk |-> cur, pageNum |-> page]

RECURSIVE ChunkLoop(_, _, _, _, _, _)
\* The loop state after sentences i..Len(sentences).  The page counter
\* starts at 1 and never falls: reading it has the turn before worked out
\* when the next one begins, which keeps the evaluation shallow on a long
\* text.
ChunkLoop(st, sentences, i, fileName, chunkSize, overlap) ==
  IF i > Len(sentences) \/ st.pageNum < 1 THEN st
  ELSE ChunkLoop(ChunkStep(st, sentences[i], fileName, chunkSize, overlap),
                 sentences, i + 1, fileName, chunkSize, overlap)

\* createChunks without the test before its final push: what is left in the
\* running chunk is pushed even when it is blank.
CreateChunksUnguarded(content, fileName, chunkSize, overlap) ==
  LET st == ChunkLoop([chunks |-> <<>>, currentChunk |-> "", pageNum |-> 1],
                      Sentences(content), 1, fileName, chunkSize, overlap)
  IN Append(st.chunks,
            MakeChunk(fileName, Len(st.chunks) + 1, st.currentChunk,
                      st.pageNum))

\* createChunks with a final push for a running chunk within chunkSize
\* only.
CreateChunksBounded(content, fileName, chunkSize, overlap) ==
  LET st == ChunkLoop([chunks |-> <<>>, currentChunk |-> "", pageNum |-> 1],
                      Sentences(content), 1, fileName, chunkSize, overlap)
  IN IF Trim(st.currentChunk) # "" /\ Len(st.currentChunk) <= chunkSize
       THEN Append(st.chunks,
                   MakeChunk(fileName, Len(st.chunks) + 1,
                             st.currentChunk, st.pageNum))
       ELSE st.chunks

\* createChunks(content, metadata, chunkSize, overlap)
CreateChunksWith(content, fileName, chunkSize, overlap) ==
  LET st == ChunkLoop([chunks |-> <<>>, currentChunk |-> "", pageNum |-> 1],
                      Sentences(content), 1, fileName, chunkSize, overlap)
  IN IF Trim(st.currentChunk) # ""
       THEN Append(st.chunks,
                   MakeChunk(fileName, Len(st.chunks) + 1,
                             st.currentChunk, st.pageNum))
       ELSE st.chunks

(***************************************************************************)
(* DocumentProcessor: keyword index                                        *)
(***************************************************************************)
StopWords ==
  {"the", "a", "an", "and", "or", "but", "in", "on", "at", "to", "for",
   "of", "with", "by", "is", "are", "was", "were", "be", "been", "have",
   "has", "had", "do", "does", "did", "will", "would", "could", "should",
   "may", "might", "can", "this", "that", "these", "those", "i", "you",
   "he", "she", "it", "we", "they", "me", "him", "her", "us", "them"}

\* The filter of extractKeywords: word.length > 2 && !stopWords.has(word)
IsKeyword(word) == Len(word) > 2 /\ word \notin StopWords

\* extractKeywords without its toLowerCase().
ExtractKeywordsCased(text) ==
  Dedupe(SelectSeq(SplitRuns(StripNonWord(text), WhiteSpace), IsKeyword))

\* extractKeywords(text): an array without duplicates, in first-occurrence
\* order.
ExtractKeywords(text) ==
  Dedupe(SelectSeq(SplitRuns(StripNonWord(ToLowerCase(text)), WhiteSpace),
                   IsKeyword))

(***************************************************************************)
(* DocumentProcessor: ingestion                                            *)
(***************************************************************************)
\* A JavaScript value that may be null or undefined: [def, v].
Nothing == [def |-> FALSE, v |-> ""]

Some(v) == [def |-> TRUE, v |-> v]

\* extractPDFText(file): a placeholder naming the file.
ExtractPDFText(file) ==
  "[PDF content from " \o file.name
    \o " - PDF processing will be implemented soon]"

\* extractWordText(file): mammoth's raw text, or, when mammoth throws, a
\* text holding the error's message.
ExtractWordText(file) ==
  IF file.mammoth = "throws"
    THEN "[Error extracting text from Word document: " \o file.error \o "]"
    ELSE file.body

\* extractTextFile(file)
ExtractTextFile(file) == file.body

\* An extractTextFromFile whose default branch reads the file as text.
ExtractTextFromFileAsText(file, fileName) ==
  LET fileType == ToLowerCase(FileExt(fileName))
  IN IF fileType = "pdf" THEN Some(ExtractPDFText(file))
     ELSE IF fileType \in {"docx", "doc"} THEN Some(ExtractWordText(file))
     ELSE Some(ExtractTextFile(file))

\* extractTextFromFile(file, fileName): the text, or null.
ExtractTextFromFile(file, fileName) ==
  LET fileType == ToLowerCase(FileExt(fileName))
  IN IF fileType = "pdf" THEN Some(ExtractPDFText(file))
     ELSE IF fileType \in {"docx", "doc"} THEN Some(ExtractWordText(file))
     ELSE IF fileType = "txt" THEN Some(ExtractTextFile(file))
     ELSE Nothing

\* A JavaScript string or null taken as a condition.
Truthy(content) == content.def /\ content.v # ""

(***************************************************************************)
(* The environment: the files behind /assets and in the upload dialog,     *)
(* and the questions asked                                                 *)
(***************************************************************************)
\* Longest manifest the relay server answers with.
MaxManifest == 2

\* Most files in one upload batch.
MaxUpload == 2

\* Most calls of the service started in one behaviour.
MaxCalls == 2

\* Largest top_k / topK asked for.
MaxTopK == 2

\* Most processDocument calls made on one processor, by callers and by
\* loadSampleDocuments together.
MaxDocs == 3

PolicyText == "Reset your password. Use the portal."

FaqText == "The portal password expires! Reset it often."

GuideText == "Install the VPN client. Use your password."

\* What a read of each file gives: the body its text extraction sees,
\* whether fetching it fails (rejects, or answers 404) and whether mammoth
\* throws on it.
Disk ==
  [name \in {"policy.txt", "faq.TXT", "blank.txt", "empty.txt", "gone.txt",
             "down.txt", "guide.docx", "broken.docx", "manual.pdf",
             "notes.md"} |->
     [name |-> name,
      body |-> CASE name = "policy.txt" -> PolicyText
                 [] name = "faq.TXT" -> FaqText
                 [] name = "blank.txt" -> " \n "
                 [] name = "guide.docx" -> GuideText
                 [] name \in {"gone.txt", "down.txt"} -> PolicyText
                 [] OTHER -> "",
      fetch |-> CASE name = "gone.txt" -> "notok"
                  [] name = "down.txt" -> "throws"
                  [] OTHER -> "ok",
      mammoth |-> IF name = "broken.docx" THEN "throws" ELSE "ok",
      error |-> IF name = "broken.docx" THEN "corrupt zip" ELSE ""]]

\* The File object the upload dialog holds for a name.
UploadedFile(name) ==
  [name |-> name, body |-> Disk[name].body,
   mammoth |-> Disk[name].mammoth, error |-> Disk[name].error]

\* The Blob of a fetched asset: response.blob() has no name property, so
\* `${file.name}` reads "undefined".
FetchedBlob(name) ==
  [name |-> "undefined", body |-> Disk[name].body,
   mammoth |-> Disk[name].mammoth, error |-> Disk[name].error]

RECURSIVE SeqsUpTo(_, _)
\* Sequences over S up to length n.
SeqsUpTo(S, n) ==
  IF n = 0 THEN {<<>>}
  ELSE LET shorter == SeqsUpTo(S, n - 1)
       IN shorter \cup {Append(q, x) : q \in shorter, x \in S}

\* Sequences over S without repetition, up to length n.
DistinctSeqs(S, n) ==
  {q \in SeqsUpTo(S, n) : \A i, j \in 1..Len(q) : i < j => q[i] # q[j]}

\* The names a directory listing of public/assets can hold.
AssetNames ==
  {"policy.txt", "blank.txt", "gone.txt", "down.txt", "broken.docx",
   "notes.md"}

\* The answers of GET /assets-manifest: a failed request, a non-success
\* status, a body that is no array, or a listing.
Manifests ==
  {[kind |-> k, files |-> <<>>] : k \in {"neterr", "notok", "nonarray"}}
    \cup {[kind |-> "array", files |-> f] :
            f \in DistinctSeqs(AssetNames, MaxManifest)}

\* The listings the concurrent calls of the service are checked with.
ServiceNames == {"policy.txt", "faq.TXT", "down.txt"}

\* The listings with a Word document, whose text is read in three waits.
WordManifests ==
  {[kind |-> "array", files |-> f] :
     f \in {<<"guide.docx">>, <<"broken.docx", "policy.txt">>}}

ServiceManifests ==
  {[kind |-> k, files |-> <<>>] : k \in {"neterr", "notok", "nonarray"}}
    \cup {[kind |-> "array", files |-> f] :
            f \in DistinctSeqs(ServiceNames, MaxManifest)}
    \cup WordManifests

\* The files a user drops on the uploader (handleFiles keeps only the
\* supported extensions).
UploadNames == {"guide.docx", "broken.docx", "blank.txt"}

\* The queries searchChunks is called with; in the last one a line
\* tabulation (U+000B) stands between the two words.
Queries ==
  {"password", "Reset the PORTAL password?", "the of it", "vpn",
   "resetpassword"}

\* The transcripts and tool queries of the service's calls.
ServiceQueries == {"password", "the of it"}

\* A text of 548 characters: more than one chunk of 500.
LongText ==
  "Every employee must change the account password every ninety days. "
    \o "The new password needs at least twelve characters and one digit. "
    \o "Never share the password with a colleague or write it on paper! "
    \o "Open the company portal and choose the security page to begin. "
    \o "Enter the old password first and then type the new one twice. "
    \o "Did the portal reject the change? Wait ten minutes and try again. "
    \o "Call the help desk when the account stays locked after three tries. "
    \o "The help desk answers on weekdays between eight and five. "
    \o "Remote workers connect through the VPN before they open the portal."

\* The direct calls of processDocument the processor is checked with: two
\* files, a long one, and second versions of two of them.
DocPool ==
  {[fileName |-> "policy.txt", content |-> PolicyText],
   [fileName |-> "faq.TXT", content |-> FaqText],
   [fileName |-> "policy.txt", content |-> GuideText],
   [fileName |-> "long.txt", content |-> LongText],
   [fileName |-> "long.txt", content |-> "The VPN is down."]}

\* The two documents loadSampleDocuments() holds: their texts.
ITProcedures ==
  "Page 1:\n"
    \o "Password Reset Procedure\n"
    \o "To reset your password, follow these steps:\n"
    \o "1. Go to the company portal at portal.company.com\n"
    \o "2. Click on \"Forgot Password\" link\n"
    \o "3. Enter your employee ID and email address\n"
    \o "4. Check your email for a reset link\n"
    \o "5. Click the link and create a new password\n"
    \o "6. Your new password must be at least 8 characters long and incl"
    \o "ude uppercase, lowercase, numbers, and special characters.\n"
    \o "\n"
    \o "Page 2:\n"
    \o "VPN Connection Setup\n"
    \o "To connect to the company VPN:\n"
    \o "1. Download the VPN client from the IT portal\n"
    \o "2. Install the client on your computer\n"
    \o "3. Open the VPN client and enter your credentials\n"
    \o "4. Select the appropriate server location\n"
    \o "5. Click \"Connect\" to establish the VPN connection\n"
    \o "6. You should see a green indicator when connected successfully."
    \o "\n"
    \o "\n"
    \o "Page 3:\n"
    \o "Software Installation Guidelines\n"
    \o "When installing new software:\n"
    \o "1. Always check with IT before installing any software\n"
    \o "2. Download software only from official sources\n"
    \o "3. Run virus scans on downloaded files\n"
    \o "4. Follow the installation wizard carefully\n"
    \o "5. Restart your computer if prompted\n"
    \o "6. Contact IT support if you encounter any issues."

EmployeeHandbook ==
  "Page 1:\n"
    \o "Company Policies and Procedures\n"
    \o "Welcome to our company! This handbook contains important informa"
    \o "tion about our policies and procedures.\n"
    \o "\n"
    \o "Working Hours:\n"
    \o "- Standard work hours are 9:00 AM to 5:00 PM\n"
    \o "- Flexible work arrangements are available with manager approval"
    \o "\n"
    \o "- Overtime must be pre-approved by your supervisor\n"
    \o "\n"
    \o "Page 2:\n"
    \o "Benefits and Leave\n"
    \o "Health Insurance:\n"
    \o "- Medical, dental, and vision coverage available\n"
    \o "- Coverage begins on the first day of the month following hire d"
    \o "ate\n"
    \o "- Contact HR for enrollment information\n"
    \o "\n"
    \o "Vacation Policy:\n"
    \o "- 15 days of paid vacation per year\n"
    \o "- Vacation requests must be submitted 2 weeks in advance\n"
    \o "- Unused vacation days roll over to the next year\n"
    \o "\n"
    \o "Page 3:\n"
    \o "Professional Development\n"
    \o "Training Opportunities:\n"
    \o "- Annual training budget of $1,000 per employee\n"
    \o "- Online courses and certifications available\n"
    \o "- Conference attendance with manager approval\n"
    \o "- Tuition reimbursement for relevant degree programs"

\* loadSampleDocuments' sampleDocuments.
SampleDocuments ==
  <<[fileName |-> "IT_Procedures.pdf", content |-> ITProcedures],
    [fileName |-> "Employee_Handbook.docx", content |-> EmployeeHandbook]>>

\* The body of loadAssetsDocuments' loop for one file: what happened, and
\* the documents it adds.
LoadFile(fileName) ==
  IF Disk[fileName].fetch = "throws" THEN [outcome |-> "threw", docs |-> <<>>]
  ELSE IF Disk[fileName].fetch = "notok" THEN [outcome |-> "notok", docs |-> <<>>]
  ELSE LET content == ExtractTextFromFile(FetchedBlob(fileName), fileName)
       IN IF Truthy(content) /\ Len(Trim(content.v)) > 0
            THEN [outcome |-> "loaded",
                  docs |-> <<[fileName |-> fileName, content |-> content.v]>>]
            ELSE [outcome |-> "empty", docs |-> <<>>]

\* createChunks(content, metadata) as processDocument calls it.
CreateChunks(content, fileName) ==
  CreateChunksWith(content, fileName, DefaultChunkSize, DefaultOverlap)

(***************************************************************************)
(* DocumentProcessor: the index, search and processDocument                *)
(***************************************************************************)
\* An array push in place of Map.prototype.set: every entry goes last.
MapSetAppend(store, id, entry) == Append(store, entry)

\* Map.prototype.set: an existing key keeps its place, a new one goes last.
MapSet(store, id, entry) ==
  IF \E i \in 1..Len(store) : store[i].id = id
    THEN [i \in 1..Len(store) |-> IF store[i].id = id THEN entry ELSE store[i]]
    ELSE Append(store, entry)

\* The entry addToVectorStore stores for a chunk.  Its embedding, a vector
\* of 1536 numbers derived from the word lengths, is never read and is
\* left out.
IndexEntry(chunk) ==
  [id |-> chunk.id, chunk |-> chunk, keywords |-> ExtractKeywords(chunk.content)]

RECURSIVE AddToVectorStore(_, _)
\* addToVectorStore(chunks), on the Map held as store.
AddToVectorStore(store, chunks) ==
  IF Len(chunks) = 0 THEN store
  ELSE AddToVectorStore(MapSet(store, chunks[1].id, IndexEntry(chunks[1])),
                        Tail(chunks))

\* searchChunks' default topK.
DefaultTopK == 5

\* A quotient without the guard on its divisor: intersection.length /
\* queryKeywords.length.
CalculateRelevanceUnguarded(queryKeywords, chunkKeywords) ==
  [num |-> Len(SelectSeq(queryKeywords, LAMBDA k : k \in Range(chunkKeywords))),
   den |-> Len(queryKeywords)]

\* calculateRelevance(queryKeywords, chunkKeywords): the quotient
\* intersection.length / Math.max(queryKeywords.length, 1), kept as the
\* fraction num / den.
CalculateRelevance(queryKeywords, chunkKeywords) ==
  [num |-> Len(SelectSeq(queryKeywords, LAMBDA k : k \in Range(chunkKeywords))),
   den |-> MaxOf(Len(queryKeywords), 1)]

\* relevance >= 0
NotNegative(rel) == rel.num >= 0

\* relevance > 0
Positive(rel) == rel.num > 0

\* The comparator (a, b) => a.relevance - b.relevance is positive.
CompareAscending(a, b) == a.relevance.num * b.relevance.den
                            > b.relevance.num * a.relevance.den

\* The comparator (a, b) => b.relevance - a.relevance is positive.
ComparePositive(a, b) == b.relevance.num * a.relevance.den
                           > a.relevance.num * b.relevance.den

\* `${fileName} (Page ${pageNum})`
SourceOf(chunk) ==
  chunk.fileName \o " (Page " \o ToString(chunk.pageNum) \o ")"

\* { ...entry.chunk, relevance, source }
SearchResult(entry, relevance) ==
  [id |-> entry.chunk.id,
   content |-> entry.chunk.content,
   fileName |-> entry.chunk.fileName,
   fileType |-> entry.chunk.fileType,
   pageNum |-> entry.chunk.pageNum,
   chunkIndex |-> entry.chunk.chunkIndex,
   relevance |-> relevance,
   source |-> SourceOf(entry.chunk)]

RECURSIVE Scored(_, _)
\* The results array after the loop over the Map, in iteration order.
Scored(store, queryKeywords) ==
  IF Len(store) = 0 THEN <<>>
  ELSE LET init == Scored(SubSeq(store, 1, Len(store) - 1), queryKeywords)
           entry == store[Len(store)]
           relevance == CalculateRelevance(queryKeywords, entry.keywords)
       IN IF Positive(relevance)
            THEN Append(init, SearchResult(entry, relevance))
            ELSE init

\* x put into the sorted array before every element that does not precede
\* it: an equal element ends up after x.
InsertBeforeEqual(sorted, x) ==
  LET before == {i \in 1..Len(sorted) : ~ComparePositive(x, sorted[i])}
      at == IF before = {} THEN Len(sorted) + 1 ELSE Min(before)
  IN SubSeq(sorted, 1, at - 1) \o <<x>> \o SubSeq(sorted, at, Len(sorted))

\* x put into the sorted array after every element it does not precede.
InsertSorted(sorted, x) ==
  LET before == {i \in 1..Len(sorted) : ComparePositive(sorted[i], x)}
      at == IF before = {} THEN Len(sorted) + 1 ELSE Min(before)
  IN SubSeq(sorted, 1, at - 1) \o <<x>> \o SubSeq(sorted, at, Len(sorted))

RECURSIVE SortResults(_)
\* results.sort((a, b) => b.relevance - a.relevance): a stable sort.
SortResults(results) ==
  IF Len(results) = 0 THEN <<>>
  ELSE InsertSorted(SortResults(SubSeq(results, 1, Len(results) - 1)),
                    results[Len(results)])

\* searchChunks without its slice(0, topK).
SearchChunksUncut(store, query, topK) ==
  SortResults(Scored(store, ExtractKeywords(query)))

\* searchChunks(query, topK)
SearchChunks(store, query, topK) ==
  JsSlice(SortResults(Scored(store, ExtractKeywords(query))), 0, topK)

RECURSIVE SumChunks(_)
\* The chunk counts of the records, added up.
SumChunks(docs) ==
  IF Len(docs) = 0 THEN 0 ELSE docs[1].chunks + SumChunks(Tail(docs))

\* Stats counted from the records instead of the index: totalChunks is the
\* sum of the records' chunk counts.
GetStatsFromRecords(store, docs) ==
  [totalDocuments |-> Len(docs),
   totalChunks |-> SumChunks(docs),
   documents |-> [i \in 1..Len(docs) |->
                    [fileName |-> docs[i].fileName, chunks |-> docs[i].chunks]]]

\* getStats()
GetStats(store, docs) ==
  [totalDocuments |-> Len(docs),
   totalChunks |-> Len(store),
   documents |-> [i \in 1..Len(docs) |->
                    [fileName |-> docs[i].fileName, chunks |-> docs[i].chunks]]]

\* content.substring(0, 200) + '...'
Preview(content) == SubSeq(content, 1, MinOf(200, Len(content))) \o "..."

\* A processDocument that drops the earlier records of the fileName
\* before it pushes the new one.
ProcessDocumentReplace(dp, doc) ==
  IF Trim(doc.content) # ""
    THEN LET chunks == CreateChunks(doc.content, doc.fileName)
         IN [vectorStore |-> AddToVectorStore(dp.vectorStore, chunks),
             documents |-> Append(SelectSeq(dp.documents,
                                            LAMBDA d : d.fileName # doc.fileName),
                                  [fileName |-> doc.fileName,
                                   chunks |-> Len(chunks),
                                   content |-> Preview(doc.content)])]
    ELSE dp

\* processDocument(document) on the processor dp = [vectorStore, documents].
ProcessDocument(dp, doc) ==
  IF Trim(doc.content) # ""
    THEN LET chunks == CreateChunks(doc.content, doc.fileName)
         IN [vectorStore |-> AddToVectorStore(dp.vectorStore, chunks),
             documents |-> Append(dp.documents,
                                  [fileName |-> doc.fileName,
                                   chunks |-> Len(chunks),
                                   content |-> Preview(doc.content)])]
    ELSE dp

RECURSIVE ProcessAll(_, _)
\* for (const doc of docs) await this.processDocument(doc)
ProcessAll(dp, docs) ==
  IF Len(docs) = 0 THEN dp
  ELSE ProcessAll(ProcessDocument(dp, docs[1]), Tail(docs))

(***************************************************************************)
(* State                                                                   *)
(***************************************************************************)
VARIABLES
  manifest,          \* what GET /assets-manifest answers
  vectorStore,       \* ragService.documentProcessor.vectorStore
  documents,         \* ragService.documentProcessor.documents
  isInitialized,     \* ragService.documentProcessor.isInitialized
  ragIsInitialized,  \* ragService.isInitialized
  stats,             \* ragService.stats
  calls,             \* the calls of the service in progress, by slot
  started,           \* how many handlers were started; the n-th has order n
  upload,            \* the uploader: its dialog's files and its runs
  lastSearch,        \* the last searchChunks() made on the processor itself
  loading,           \* loadSampleDocuments(): the sample its loop takes next
  chunking           \* a createChunks() call: its arguments and its result

vars == <<manifest, vectorStore, documents, isInitialized, ragIsInitialized,
          stats, calls, started, upload, lastSearch, loading, chunking>>

\* Calls that can overlap: the init button, the transcript search and the
\* tool handler are all asynchronous.
Slots == {1, 2}

Null == [null |-> TRUE]

EmptyProcessor == [vectorStore |-> <<>>, documents |-> <<>>]

NoReturn == [kind |-> "none"]

IdleCall ==
  [kind |-> "idle", pc |-> "idle", query |-> Nothing, topK |-> 0,
   files |-> <<>>, i |-> 0, docs |-> <<>>, loaded |-> FALSE,
   out |-> NoReturn, ret |-> NoReturn, order |-> 0]

NoUpload == [shown |-> FALSE, uploadedFiles |-> <<>>, runs |-> <<>>]

NoSearch ==
  [done |-> FALSE, query |-> "", topK |-> 0, results |-> <<>>,
   repeated |-> FALSE, previous |-> <<>>]

NoChunking ==
  [done |-> FALSE, content |-> "", fileName |-> "", chunkSize |-> 0,
   overlap |-> 0, chunks |-> <<>>]

\* new RAGService(), new DocumentProcessor()
InitState ==
  /\ vectorStore = <<>>
  /\ documents = <<>>
  /\ isInitialized = FALSE
  /\ ragIsInitialized = FALSE
  /\ stats = Null
  /\ calls = [c \in Slots |-> IdleCall]
  /\ started = 0
  /\ upload = NoUpload
  /\ lastSearch = NoSearch
  /\ loading = 0

Init == manifest \in ServiceManifests /\ InitState /\ chunking = NoChunking

(***************************************************************************)
(* RAGService and the tool handler                                         *)
(*                                                                         *)
(* An action is the code run between two awaits of input or output (a      *)
(* fetch, a body read, a module import, a file read, a timer): those are   *)
(* the points where another call can run.  An await of a promise that is   *)
(* already settled, such as                                                *)
(* `await this.processDocument(doc)`, continues in the same microtask      *)
(* checkpoint, before any other task, and is part of the action.           *)
(***************************************************************************)
\* results.map(result => ({content, source, relevance, metadata}))
MapResults(results) ==
  [j \in 1..Len(results) |->
     [content |-> results[j].content,
      source |-> results[j].source,
      relevance |-> results[j].relevance,
      fileName |-> results[j].fileName,
      pageNum |-> results[j].pageNum,
      chunkIndex |-> results[j].chunkIndex]]

\* The rest of searchDocuments(query, topK) once the service is
\* initialized; text.toLowerCase() throws a TypeError on a query that is
\* not a string.
SearchDocuments(store, query, topK) ==
  IF ~query.def
    THEN [kind |-> "threw",
          message |-> "Cannot read properties of undefined (reading 'toLowerCase')"]
    ELSE [kind |-> "results", results |-> MapResults(SearchChunks(store, query.v, topK))]

\* `Result ${index + 1} (${result.source}):\n${result.content}`, joined.
FormatResults(results) ==
  Join([j \in 1..Len(results) |->
          "Result " \o ToString(j) \o " (" \o results[j].source \o "):\n"
            \o results[j].content],
       "\n\n")

\* text.length > n ? text.slice(0, n) + '...' : text
Truncate(text, n) ==
  IF Len(text) > n THEN SubSeq(text, 1, n) \o "..." ELSE text

\* The summary's cut.
SummaryChars == 400

\* document_content's cut.
ContentChars == 2000

\* A handler without its empty-result branch: an empty search is reported
\* as a success.
ToolResponseNoEmptyBranch(out, query) ==
  IF out.kind = "threw"
    THEN [status |-> "error", error |-> "Failed to search documents",
          message |-> out.message]
    ELSE [status |-> "success",
          message |-> "Found " \o ToString(Len(out.results))
                        \o " relevant document chunks for your query.",
          query |-> query,
          total_results |-> Len(out.results),
          document_content |-> "",
          sources |-> [j \in 1..Len(out.results) |-> out.results[j].source],
          summary |-> ""]

\* What the tool handler returns after the search: out is what
\* searchDocuments gave or threw.
ToolResponse(out, query) ==
  IF out.kind = "threw"
    THEN [status |-> "error", error |-> "Failed to search documents",
          message |-> out.message]
  ELSE IF Len(out.results) = 0
    THEN [status |-> "no_results",
          message |-> "No relevant documents found for your query.",
          query |-> query]
  ELSE LET formatted == FormatResults(out.results)
       IN [status |-> "success",
           message |-> "Found " \o ToString(Len(out.results))
                         \o " relevant document chunks for your query.",
           query |-> query,
           total_results |-> Len(out.results),
           document_content |-> Truncate(formatted, ContentChars),
           sources |-> [j \in 1..Len(out.results) |-> out.results[j].source],
           summary |-> Truncate(formatted, SummaryChars)]

\* The call's record after its search gave or threw out: searchDocuments()
\* returns it, the tool handler, with results in hand, waits 500 ms before
\* it returns.  out is the handler's local `results`, or what the search
\* threw; ret is what the call returned.
AfterSearch(call, out) ==
  IF call.kind = "search"
    THEN [call EXCEPT !.pc = "done", !.out = out, !.ret = out]
  ELSE IF out.kind = "results" /\ Len(out.results) > 0
    THEN [call EXCEPT !.pc = "delay", !.out = out]
  ELSE [call EXCEPT !.pc = "done", !.out = out,
                    !.ret = [kind |-> "response",
                             response |-> ToolResponse(out, call.query)]]

\* The call's record once the service is initialized with the processor
\* state dp and cached stats st: initialize() returns the stats,
\* searchDocuments() and the tool handler search.
AfterInitialize(call, dp, st) ==
  IF call.kind = "init"
    THEN [call EXCEPT !.pc = "done", !.ret = [kind |-> "stats", stats |-> st]]
  ELSE AfterSearch(call, SearchDocuments(dp.vectorStore, call.query, call.topK))

\* RAGService.initialize() after its processor's initialize() has left
\* the processor as dp: st is cached, the service is initialized, and the
\* call goes on.
SetInitialized(c, call, dp, st) ==
  /\ vectorStore' = dp.vectorStore
  /\ documents' = dp.documents
  /\ isInitialized' = TRUE
  /\ ragIsInitialized' = TRUE
  /\ stats' = st
  /\ calls' = [calls EXCEPT ![c] = AfterInitialize(call, dp, st)]

\* this.stats = this.documentProcessor.getStats()
CacheStats(c, call, dp) ==
  SetInitialized(c, call, dp, GetStats(dp.vectorStore, dp.documents))

\* An end of initialize() that caches the stats only when none are cached
\* yet.
FinishInitializeKeepStats(c, call, docs) ==
  LET dp == ProcessAll([vectorStore |-> vectorStore, documents |-> documents],
                       docs)
      st == IF stats = Null THEN GetStats(dp.vectorStore, dp.documents)
            ELSE stats
  IN /\ vectorStore' = dp.vectorStore
     /\ documents' = dp.documents
     /\ isInitialized' = TRUE
     /\ ragIsInitialized' = TRUE
     /\ stats' = st
     /\ calls' = [calls EXCEPT ![c] = AfterInitialize(call, dp, st)]

\* An end of initialize() in which the call reads the index before the
\* run's documents are processed into it.
FinishInitializeSearchFirst(c, call, docs) ==
  LET dp == ProcessAll([vectorStore |-> vectorStore, documents |-> documents],
                       docs)
      st == GetStats(dp.vectorStore, dp.documents)
  IN /\ vectorStore' = dp.vectorStore
     /\ documents' = dp.documents
     /\ isInitialized' = TRUE
     /\ ragIsInitialized' = TRUE
     /\ stats' = st
     /\ calls' = [calls EXCEPT ![c] =
                    AfterInitialize(call, [vectorStore |-> vectorStore,
                                           documents |-> documents], st)]

\* An end of initialize() that sets the flags inside the branch for a
\* non-empty document list only.
FinishInitializeWhenFound(c, call, docs) ==
  LET dp == ProcessAll([vectorStore |-> vectorStore, documents |-> documents],
                       docs)
      st == GetStats(dp.vectorStore, dp.documents)
  IN /\ vectorStore' = dp.vectorStore
     /\ documents' = dp.documents
     /\ isInitialized' = (Len(docs) > 0)
     /\ ragIsInitialized' = (Len(docs) > 0)
     /\ stats' = st
     /\ calls' = [calls EXCEPT ![c] = AfterInitialize(call, dp, st)]

\* The end of DocumentProcessor.initialize() and of RAGService.initialize()
\* for a call whose loadAssetsDocuments() returned docs: every document is
\* processed, both isInitialized flags are set and the stats are cached.
FinishInitialize(c, call, docs) ==
  CacheStats(c, call,
             ProcessAll([vectorStore |-> vectorStore, documents |-> documents],
                        docs))

\* A call enters a service that starts an initialization for every call,
\* initialized or not.
BeginAlways(c, new) ==
  /\ c = Min({d \in Slots : calls[d].pc \in {"idle", "done"}} \cup {c})
  /\ calls[c].pc \in {"idle", "done"}
  /\ started < MaxCalls
  /\ started' = started + 1
  /\ documents' = <<>>
  /\ vectorStore' = <<>>
  /\ calls' = [calls EXCEPT ![c] =
                 [new EXCEPT !.order = started + 1, !.pc = "discover"]]
  /\ UNCHANGED <<isInitialized, ragIsInitialized, stats>>
  /\ UNCHANGED <<chunking, manifest, upload, lastSearch, loading>>

\* A call enters the service.  Initialized: it is served at once.  Else it
\* enters RAGService.initialize() and DocumentProcessor.initialize(), whose
\* loadAssetsDocuments() clears the documents and the index and awaits the
\* manifest.
Begin(c, new) ==
  /\ c = Min({d \in Slots : calls[d].pc \in {"idle", "done"}} \cup {c})
  /\ calls[c].pc \in {"idle", "done"}
  /\ started < MaxCalls
  /\ started' = started + 1
  /\ LET call == [new EXCEPT !.order = started + 1]
     IN IF ragIsInitialized
          THEN /\ calls' = [calls EXCEPT ![c] =
                    AfterInitialize(call,
                                    [vectorStore |-> vectorStore,
                                     documents |-> documents],
                                    stats)]
               /\ UNCHANGED <<vectorStore, documents, isInitialized,
                              ragIsInitialized, stats>>
        ELSE IF isInitialized
          THEN /\ stats' = GetStats(vectorStore, documents)
               /\ ragIsInitialized' = TRUE
               /\ calls' = [calls EXCEPT ![c] =
                    AfterInitialize(call,
                                    [vectorStore |-> vectorStore,
                                     documents |-> documents],
                                    GetStats(vectorStore, documents))]
               /\ UNCHANGED <<vectorStore, documents, isInitialized>>
        ELSE /\ documents' = <<>>
             /\ vectorStore' = <<>>
             /\ calls' = [calls EXCEPT ![c] = [call EXCEPT !.pc = "discover"]]
             /\ UNCHANGED <<isInitialized, ragIsInitialized, stats>>
  /\ UNCHANGED <<chunking, manifest, upload, lastSearch, loading>>

\* Where a call inside loadAssetsDocuments() waits: for the manifest's
\* response or its body, for a file's response or its body, or, in
\* extractTextFromFile, for the import of mammoth, for the file's bytes or
\* for the file's text.
LoadingPcs ==
  {"discover", "json", "fetch", "blob", "mammoth", "buffer", "extract"}

\* The page's ragInitializing, the uploader's isProcessing: an
\* initializeRAG() is waiting for ragService.initialize().
RagInitializing ==
  \E c \in Slots : calls[c].kind = "init" /\ calls[c].pc \in LoadingPcs

\* initializeRAG(), from the init button, which is disabled while
\* ragInitializing: ragService.initialize() is called.
Initialize(c) ==
  /\ ~RagInitializing
  /\ Begin(c, [IdleCall EXCEPT !.kind = "init"])

\* ragService.searchDocuments(transcript, 5), for a user message.
SearchDocumentsCall(c) ==
  \E q \in ServiceQueries :
    Begin(c, [IdleCall EXCEPT !.kind = "search", !.query = Some(q),
                              !.topK = DefaultTopK])

\* The arguments the model may pass to the tool: the query may be missing,
\* top_k defaults to 5.
ToolQueries == {Nothing} \cup {Some(q) : q \in ServiceQueries}

ToolTopKs == {DefaultTopK, 1}

\* The search_documents handler is called.
ToolCall(c) ==
  \E q \in ToolQueries, k \in ToolTopKs :
    Begin(c, [IdleCall EXCEPT !.kind = "tool", !.query = q, !.topK = k])

\* discoverFilesInAssets()'s `await fetch(.../assets-manifest)` settles.  A
\* rejected request or a response that is not ok gives no files, and with
\* nothing to fetch the initialization ends in this step; else the body is
\* awaited.
Discover(c) ==
  LET call == calls[c]
  IN /\ call.pc = "discover"
     /\ IF manifest.kind \in {"neterr", "notok"}
          THEN FinishInitialize(c, [call EXCEPT !.loaded = TRUE, !.i = 1], <<>>)
          ELSE /\ calls' = [calls EXCEPT ![c] = [call EXCEPT !.pc = "json"]]
               /\ UNCHANGED <<vectorStore, documents, isInitialized,
                              ragIsInitialized, stats>>
     /\ UNCHANGED <<chunking, manifest, started, upload, lastSearch, loading>>

\* discoverFilesInAssets()'s `await response.json()` settles: the list, or
\* nothing when the body is no array.  With files the first one's fetch is
\* awaited.
DiscoverJson(c) ==
  LET call == calls[c]
      fileList == IF manifest.kind = "array" THEN manifest.files ELSE <<>>
  IN /\ call.pc = "json"
     /\ IF Len(fileList) = 0
          THEN FinishInitialize(c, [call EXCEPT !.loaded = TRUE, !.i = 1], <<>>)
          ELSE /\ calls' = [calls EXCEPT ![c] =
                              [call EXCEPT !.pc = "fetch", !.files = fileList,
                                           !.i = 1]]
               /\ UNCHANGED <<vectorStore, documents, isInitialized,
                              ragIsInitialized, stats>>
     /\ UNCHANGED <<chunking, manifest, started, upload, lastSearch, loading>>

\* A loop whose try/catch is around it, not inside it: a throw ends the
\* batch.
AfterFileAbort(i, n, outcome) == IF outcome = "threw" THEN n + 1 ELSE i + 1

\* The index of the file the loop turns to after file i of n: the
\* try/catch is inside the loop, so the next one, whatever happened.
AfterFile(i, n, outcome) == i + 1

\* extractTextFromFile awaits a read of the file for these types
\* (file.text(), or file.arrayBuffer() and mammoth); for a pdf and for an
\* unsupported type it returns without waiting for anything.
ReadsFile(fileName) == ToLowerCase(FileExt(fileName)) \in {"docx", "doc", "txt"}

\* Where extractTextFromFile waits first for a file it reads, last being
\* the pc of the read of its text: extractWordText awaits the import of
\* mammoth, then file.arrayBuffer(), then mammoth's extractRawText;
\* extractTextFile awaits file.text() only.
FirstWait(fileName, last) ==
  IF ToLowerCase(FileExt(fileName)) \in {"docx", "doc"} THEN "mammoth" ELSE last

\* The loop's body for the call's file has ended with r: its documents are
\* kept and the loop turns to the next file's fetch; after the last file
\* the initialization ends.
EndFile(c, r) ==
  LET call == calls[c]
      n == Len(call.files)
      next == AfterFile(call.i, n, r.outcome)
      now == [call EXCEPT !.docs = call.docs \o r.docs, !.i = next,
                          !.pc = "fetch"]
  IN IF next > n
       THEN FinishInitialize(c, [now EXCEPT !.loaded = TRUE], now.docs)
       ELSE /\ calls' = [calls EXCEPT ![c] = now]
            /\ UNCHANGED <<vectorStore, documents, isInitialized,
                           ragIsInitialized, stats>>

\* `await fetch(/assets/<file>)` settles for the loop's file: a rejected
\* request or a response that is not ok ends the file, else its body is
\* awaited.
FetchFile(c) ==
  LET call == calls[c]
  IN /\ call.pc = "fetch"
     /\ IF Disk[call.files[call.i]].fetch # "ok"
          THEN EndFile(c, LoadFile(call.files[call.i]))
          ELSE /\ calls' = [calls EXCEPT ![c] = [call EXCEPT !.pc = "blob"]]
               /\ UNCHANGED <<vectorStore, documents, isInitialized,
                              ragIsInitialized, stats>>
     /\ UNCHANGED <<chunking, manifest, started, upload, lastSearch, loading>>

\* `await response.blob()` settles: extractTextFromFile is called, and
\* either awaits its read of the file or ends the file at once.
FetchBlob(c) ==
  LET call == calls[c]
  IN /\ call.pc = "blob"
     /\ IF ReadsFile(call.files[call.i])
          THEN /\ calls' = [calls EXCEPT ![c] =
                    [call EXCEPT !.pc = FirstWait(call.files[call.i], "extract")]]
               /\ UNCHANGED <<vectorStore, documents, isInitialized,
                              ragIsInitialized, stats>>
          ELSE EndFile(c, LoadFile(call.files[call.i]))
     /\ UNCHANGED <<chunking, manifest, started, upload, lastSearch, loading>>

\* extractWordText's `await import('mammoth')` settles in the call: the
\* file's bytes are awaited.
ImportMammoth(c) ==
  /\ calls[c].pc = "mammoth"
  /\ calls' = [calls EXCEPT ![c].pc = "buffer"]
  /\ UNCHANGED <<chunking, manifest, vectorStore, documents, isInitialized,
                 ragIsInitialized, stats, started, upload, lastSearch, loading>>

\* extractWordText's `await file.arrayBuffer()` settles in the call:
\* mammoth's extractRawText is awaited.
ReadArrayBuffer(c) ==
  /\ calls[c].pc = "buffer"
  /\ calls' = [calls EXCEPT ![c].pc = "extract"]
  /\ UNCHANGED <<chunking, manifest, vectorStore, documents, isInitialized,
                 ragIsInitialized, stats, started, upload, lastSearch, loading>>

\* The read of the file's text settles (mammoth's extractRawText, or
\* file.text()) and with it `await this.extractTextFromFile(file,
\* fileName)`: the file's text, when it has any, becomes a document.
ExtractFile(c) ==
  /\ calls[c].pc = "extract"
  /\ EndFile(c, LoadFile(calls[c].files[calls[c].i]))
  /\ UNCHANGED <<chunking, manifest, started, upload, lastSearch, loading>>

\* The tool handler's 500 ms are over: it returns its response.
ToolReturn(c) ==
  LET call == calls[c]
  IN /\ call.pc = "delay"
     /\ calls' = [calls EXCEPT ![c] =
                    [call EXCEPT !.pc = "done",
                                 !.ret = [kind |-> "response",
                                          response |-> ToolResponse(call.out, call.query)]]]
     /\ UNCHANGED <<chunking, manifest, vectorStore, documents, isInitialized,
                    ragIsInitialized, stats, started, upload, lastSearch, loading>>

(***************************************************************************)
(* The uploader                                                            *)
(***************************************************************************)
\* The extensions the dialog keeps and extractTextFromFile knows.
SupportedTypes == {"pdf", "docx", "doc", "txt"}

\* handleFiles' filter: the name's last dot-separated part, lower-cased, is
\* a supported type.
Supported(name) == ToLowerCase(FileExt(name)) \in SupportedTypes

\* handleFiles' newFiles: the files with a supported extension.
HandleFiles(names) == SelectSeq(names, Supported)

\* The names of the files a caller can hold.
DroppedNames ==
  {"faq.TXT", "guide.docx", "broken.docx", "manual.pdf", "README",
   "photo.PNG", "archive.tar.gz", "report.txt.bak", "letter.Doc"}

\* The File object behind a name: the files the disk does not list, and
\* those of an unsupported type, hold plain text.
DroppedFile(name) ==
  IF name \in DOMAIN Disk /\ Supported(name) THEN UploadedFile(name)
  ELSE [name |-> name, body |-> PolicyText, mammoth |-> "ok", error |-> ""]

\* The body of processUploadedFiles' loop for one file on the processor dp:
\* nothing in it throws for a File, so its catch is never entered.
ProcessUploadedFile(dp, file) ==
  IF Truthy(ExtractTextFromFile(file, file.name))
    THEN ProcessDocument(dp, [fileName |-> file.name,
                              content |-> ExtractTextFromFile(file, file.name).v])
    ELSE dp

RECURSIVE ProcessUploadedFiles(_, _)
\* processUploadedFiles(files) on the processor dp, from its call to its
\* return.
ProcessUploadedFiles(dp, files) ==
  IF Len(files) = 0 THEN dp
  ELSE ProcessUploadedFiles(ProcessUploadedFile(dp, files[1]), Tail(files))

RECURSIVE RunToRead(_, _, _)
\* processUploadedFiles' loop from file i on, as far as it runs without
\* waiting: the files whose extraction awaits no read are gone through at
\* once.  Gives the processor and the index of the file whose read the
\* loop awaits, past the last one when the loop has ended.
RunToRead(dp, names, i) ==
  IF i > Len(names) \/ ReadsFile(names[i]) THEN [dp |-> dp, i |-> i]
  ELSE RunToRead(ProcessUploadedFile(dp, DroppedFile(names[i])), names, i + 1)

\* A call of processFiles() or of processUploadedFiles(): where it is from,
\* where it waits, the files it was called with, the file it reads, its
\* processor once made, the stats it returned and the number of handlers
\* started when it returned.
NewRun ==
  [from |-> "dialog", pc |-> "import", files |-> <<>>, i |-> 0,
   made |-> FALSE, vectorStore |-> <<>>, documents |-> <<>>, stats |-> Null,
   threw |-> FALSE, order |-> 0, doneAt |-> 0]

\* The run with its loop at t = [dp, i]: it awaits the read of file i, or,
\* past the last file, processUploadedFiles returns getStats().
RunAt(run, t, now) ==
  IF t.i > Len(run.files)
    THEN [run EXCEPT !.pc = "done", !.i = t.i, !.made = TRUE,
                     !.vectorStore = t.dp.vectorStore,
                     !.documents = t.dp.documents,
                     !.stats = GetStats(t.dp.vectorStore, t.dp.documents),
                     !.doneAt = now]
    ELSE [run EXCEPT !.pc = FirstWait(run.files[t.i], "read"), !.i = t.i,
                     !.made = TRUE,
                     !.vectorStore = t.dp.vectorStore,
                     !.documents = t.dp.documents]

\* The uploader after run r has become now: when a processFiles() has got
\* its stats it calls onDocumentsProcessed(stats), which hides the
\* uploader, and setUploadedFiles([]).
AfterRun(r, now) ==
  IF now.pc = "done" /\ now.from = "dialog"
    THEN [upload EXCEPT !.runs[r] = now, !.shown = FALSE,
                        !.uploadedFiles = <<>>]
    ELSE [upload EXCEPT !.runs[r] = now]

\* setShowDocumentUploader(!showDocumentUploader): the uploader is mounted
\* with no files, or unmounted.
ToggleUploader ==
  /\ upload' = [upload EXCEPT !.shown = ~upload.shown, !.uploadedFiles = <<>>]
  /\ UNCHANGED <<chunking, manifest, vectorStore, documents, isInitialized,
                 ragIsInitialized, stats, calls, started, lastSearch, loading>>

\* handleFiles(files), from a drop or the file input: the supported files
\* are appended to the dialog's list.
HandleFilesCall(dropped) ==
  /\ upload.shown
  /\ dropped # <<>>
  /\ Len(upload.uploadedFiles \o HandleFiles(dropped)) <= MaxUpload
  /\ upload' = [upload EXCEPT !.uploadedFiles = @ \o HandleFiles(dropped)]
  /\ UNCHANGED <<chunking, manifest, vectorStore, documents, isInitialized,
                 ragIsInitialized, stats, calls, started, lastSearch, loading>>

\* removeFile(index), JavaScript's index + 1 here, from a file's remove
\* button, which is disabled while isProcessing.
RemoveFile(index) ==
  /\ upload.shown
  /\ ~RagInitializing
  /\ index \in 1..Len(upload.uploadedFiles)
  /\ upload' = [upload EXCEPT !.uploadedFiles =
                  SubSeq(@, 1, index - 1) \o SubSeq(@, index + 1, Len(@))]
  /\ UNCHANGED <<chunking, manifest, vectorStore, documents, isInitialized,
                 ragIsInitialized, stats, calls, started, lastSearch, loading>>

\* processFiles() is called with files in the list and awaits the import
\* of the processor's module; the files are those of the render the button
\* was clicked in.
ProcessFiles ==
  /\ upload.shown
  /\ ~RagInitializing
  /\ Len(upload.uploadedFiles) # 0
  /\ started < MaxCalls
  /\ started' = started + 1
  /\ upload' = [upload EXCEPT !.runs =
                  Append(@, [NewRun EXCEPT !.files = upload.uploadedFiles,
                                           !.order = started + 1])]
  /\ UNCHANGED <<chunking, manifest, vectorStore, documents, isInitialized,
                 ragIsInitialized, stats, calls, lastSearch, loading>>

\* processFiles' import has settled: new DocumentProcessor(), and
\* processUploadedFiles(uploadedFiles) runs to its first read.
ImportProcessor(r) ==
  /\ r \in 1..Len(upload.runs)
  /\ upload.runs[r].pc = "import"
  /\ upload' = AfterRun(r, RunAt(upload.runs[r],
                                 RunToRead(EmptyProcessor, upload.runs[r].files, 1),
                                 started))
  /\ UNCHANGED <<chunking, manifest, vectorStore, documents, isInitialized,
                 ragIsInitialized, stats, calls, started, lastSearch, loading>>

\* processUploadedFiles(files) is called on a new processor by a caller
\* that holds the files, and runs to its first read.
ProcessUploadedFilesCall(files) ==
  /\ started < MaxCalls
  /\ started' = started + 1
  /\ upload' = [upload EXCEPT !.runs =
                  Append(@, RunAt([NewRun EXCEPT !.from = "direct",
                                                 !.files = files,
                                                 !.order = started + 1],
                                  RunToRead(EmptyProcessor, files, 1),
                                  started + 1))]
  /\ UNCHANGED <<chunking, manifest, vectorStore, documents, isInitialized,
                 ragIsInitialized, stats, calls, lastSearch, loading>>

\* extractWordText's `await import('mammoth')` settles in run r.
RunImportMammoth(r) ==
  /\ r \in 1..Len(upload.runs)
  /\ upload.runs[r].pc = "mammoth"
  /\ upload' = [upload EXCEPT !.runs[r].pc = "buffer"]
  /\ UNCHANGED <<chunking, manifest, vectorStore, documents, isInitialized,
                 ragIsInitialized, stats, calls, started, lastSearch, loading>>

\* extractWordText's `await file.arrayBuffer()` settles in run r.
RunReadArrayBuffer(r) ==
  /\ r \in 1..Len(upload.runs)
  /\ upload.runs[r].pc = "buffer"
  /\ upload' = [upload EXCEPT !.runs[r].pc = "read"]
  /\ UNCHANGED <<chunking, manifest, vectorStore, documents, isInitialized,
                 ragIsInitialized, stats, calls, started, lastSearch, loading>>

\* The read of the file's text settles in run r and with it `await
\* this.extractTextFromFile(file, file.name)`: the file is processed and
\* the loop runs to its next read or to its end.
ReadFile(r) ==
  /\ r \in 1..Len(upload.runs)
  /\ upload.runs[r].pc = "read"
  /\ upload' =
       AfterRun(r, RunAt(upload.runs[r],
                         RunToRead(ProcessUploadedFile(
                                     [vectorStore |-> upload.runs[r].vectorStore,
                                      documents |-> upload.runs[r].documents],
                                     DroppedFile(upload.runs[r].files[upload.runs[r].i])),
                                   upload.runs[r].files, upload.runs[r].i + 1),
                         started))
  /\ UNCHANGED <<chunking, manifest, vectorStore, documents, isInitialized,
                 ragIsInitialized, stats, calls, started, lastSearch, loading>>

Next ==
  \/ \E c \in Slots : Initialize(c)
  \/ \E c \in Slots : SearchDocumentsCall(c)
  \/ \E c \in Slots : ToolCall(c)
  \/ \E c \in Slots : Discover(c)
  \/ \E c \in Slots : DiscoverJson(c)
  \/ \E c \in Slots : FetchFile(c)
  \/ \E c \in Slots : FetchBlob(c)
  \/ \E c \in Slots : ImportMammoth(c)
  \/ \E c \in Slots : ReadArrayBuffer(c)
  \/ \E c \in Slots : ExtractFile(c)
  \/ \E c \in Slots : ToolReturn(c)

Spec == Init /\ [][Next]_vars

(***************************************************************************)
(* Ingestion: one caller of the service at a time over every listing, and  *)
(* one batch handed to processUploadedFiles on a processor of its own      *)
(***************************************************************************)
InitIngest == manifest \in Manifests /\ InitState /\ chunking = NoChunking

\* The batches handed to processUploadedFiles.
UploadBatches == SeqsUpTo(UploadNames, MaxUpload) \ {<<>>}

NextIngest ==
  \/ Initialize(1)
  \/ SearchDocumentsCall(1)
  \/ Discover(1)
  \/ DiscoverJson(1)
  \/ FetchFile(1)
  \/ FetchBlob(1)
  \/ ImportMammoth(1)
  \/ ReadArrayBuffer(1)
  \/ ExtractFile(1)
  \/ \E files \in UploadBatches :
       upload.runs = <<>> /\ ProcessUploadedFilesCall(files)
  \/ \E r \in DOMAIN upload.runs : RunImportMammoth(r)
  \/ \E r \in DOMAIN upload.runs : RunReadArrayBuffer(r)
  \/ \E r \in DOMAIN upload.runs : ReadFile(r)

SpecIngest == InitIngest /\ [][NextIngest]_vars

(***************************************************************************)
(* The upload dialog next to one caller of the service                     *)
(***************************************************************************)
\* The listings the service is given next to the uploader.
UploadManifests ==
  {[kind |-> "notok", files |-> <<>>],
   [kind |-> "array", files |-> <<"guide.docx">>]}

\* What a user drops on the dialog at once: a Word document, whose text
\* is read in three waits, and a text file with no text.
DialogBatches == SeqsUpTo({"guide.docx", "blank.txt"}, MaxUpload) \ {<<>>}

InitUpload == manifest \in UploadManifests /\ InitState /\ chunking = NoChunking

NextUpload ==
  \/ ToggleUploader
  \/ \E dropped \in DialogBatches : HandleFilesCall(dropped)
  \/ \E index \in 1..MaxUpload : RemoveFile(index)
  \/ ProcessFiles
  \/ \E r \in DOMAIN upload.runs : ImportProcessor(r)
  \/ \E r \in DOMAIN upload.runs : RunImportMammoth(r)
  \/ \E r \in DOMAIN upload.runs : RunReadArrayBuffer(r)
  \/ \E r \in DOMAIN upload.runs : ReadFile(r)
  \/ Initialize(1)
  \/ SearchDocumentsCall(1)
  \/ Discover(1)
  \/ DiscoverJson(1)
  \/ FetchFile(1)
  \/ FetchBlob(1)
  \/ ImportMammoth(1)
  \/ ReadArrayBuffer(1)
  \/ ExtractFile(1)

SpecUpload == InitUpload /\ [][NextUpload]_vars

(***************************************************************************)
(* Files of every kind handed to the dialog and to processUploadedFiles    *)
(***************************************************************************)
\* What a caller drops or hands over at once.
DroppedBatches == SeqsUpTo(DroppedNames, MaxUpload) \ {<<>>}

InitExtract ==
  /\ manifest = [kind |-> "array", files |-> <<>>]
  /\ InitState
  /\ chunking = NoChunking

\* The dialog is opened and takes drops; one batch goes to
\* processUploadedFiles.
NextExtract ==
  \/ ToggleUploader
  \/ \E dropped \in DroppedBatches : HandleFilesCall(dropped)
  \/ \E files \in DroppedBatches :
       upload.runs = <<>> /\ ProcessUploadedFilesCall(files)
  \/ \E r \in DOMAIN upload.runs : RunImportMammoth(r)
  \/ \E r \in DOMAIN upload.runs : RunReadArrayBuffer(r)
  \/ \E r \in DOMAIN upload.runs : ReadFile(r)

SpecExtract == InitExtract /\ [][NextExtract]_vars

(***************************************************************************)
(* One DocumentProcessor called directly                                   *)
(***************************************************************************)
\* The topK values searchChunks is called with.
TopKs == {DefaultTopK} \cup 0..MaxTopK

\* The processor has become dp, by a call made on it directly.
SetProcessor(dp) ==
  /\ vectorStore' = dp.vectorStore
  /\ documents' = dp.documents
  /\ lastSearch' = NoSearch
  /\ UNCHANGED <<chunking, manifest, isInitialized, ragIsInitialized, stats,
                 calls, started, upload>>

\* The samples loadSampleDocuments' loop has still to take.
SamplesLeft ==
  IF loading = 0 THEN 0 ELSE Len(SampleDocuments) - loading + 1

\* processDocument(doc) on the processor, also between two turns of
\* loadSampleDocuments' loop.
ProcessDocumentCall ==
  \E doc \in DocPool :
    /\ Len(documents) + SamplesLeft < MaxDocs
    /\ SetProcessor(ProcessDocument([vectorStore |-> vectorStore,
                                     documents |-> documents], doc))
    /\ UNCHANGED loading

\* The turn of loadSampleDocuments' loop that takes sample i:
\* await this.processDocument(doc).  processDocument awaits nothing, so
\* the turn runs up to the await, where other calls can come in.
ProcessSample(i) ==
  /\ SetProcessor(ProcessDocument([vectorStore |-> vectorStore,
                                   documents |-> documents],
                                  SampleDocuments[i]))
  /\ loading' = IF i < Len(SampleDocuments) THEN i + 1 ELSE 0

\* loadSampleDocuments() on the processor, up to its first await: the
\* first sample is processed.
LoadSampleDocuments ==
  /\ loading = 0
  /\ Len(documents) + Len(SampleDocuments) <= MaxDocs
  /\ ProcessSample(1)

\* loadSampleDocuments() resumes after an await and takes the next sample.
ResumeLoadSampleDocuments ==
  /\ loading > 0
  /\ ProcessSample(loading)

\* searchChunks(query, topK) on the processor.  A caller that makes the
\* search it made last, with nothing processed in between, holds both
\* results.
SearchChunksCall ==
  \E q \in Queries, k \in TopKs :
    LET again == lastSearch.done /\ lastSearch.query = q /\ lastSearch.topK = k
    IN /\ lastSearch' =
            [done |-> TRUE, query |-> q, topK |-> k,
             results |-> SearchChunks(vectorStore, q, k),
             repeated |-> again,
             previous |-> IF again THEN lastSearch.results ELSE <<>>]
       /\ UNCHANGED <<chunking, manifest, vectorStore, documents,
                      isInitialized, ragIsInitialized, stats, calls, started,
                      upload, loading>>

InitEngine ==
  /\ manifest = [kind |-> "array", files |-> <<>>]
  /\ InitState
  /\ chunking = NoChunking

NextEngine ==
  \/ ProcessDocumentCall
  \/ LoadSampleDocuments
  \/ ResumeLoadSampleDocuments
  \/ SearchChunksCall

SpecEngine == InitEngine /\ [][NextEngine]_vars

(***************************************************************************)
(* createChunks called directly, over texts, sizes and overlaps            *)
(***************************************************************************)
\* A chunkSize small enough to cut the sample texts after a sentence or two.
SmallChunkSize == 10

\* An overlap of two words.
SmallOverlap == 10

RECURSIVE Spaces(_)
\* n spaces.
Spaces(n) ==
  IF n = 0 THEN ""
  ELSE IF n = 1 THEN " "
  ELSE Spaces(n \div 2) \o Spaces(n - n \div 2)

\* A text whose second sentence has more than 300 pieces between spaces.
WideText ==
  "Intro here. a" \o Spaces(PageWords + 1) \o "b. Tail one. Tail two."

\* The contents createChunks is called with: short and long texts, texts
\* without a sentence, a repeated sentence, sentences of one word, the
\* wide one, and one whose middle sentence is a line tabulation (U+000B)
\* and which ends in one.
ChunkTexts ==
  {PolicyText, FaqText, LongText, WideText, "", "?!.", " \n ",
   "aa bb cc. dd ee. ff gg hh ii. jj", "Go. Stop now! Go. ", "a.b.c",
   "One.. Two."}

\* The chunkSize values: the default, none, one character, a few.
ChunkSizes == {DefaultChunkSize, 0, 1, SmallChunkSize}

\* The overlap values: the default, none, two words, and a negative one.
Overlaps == {DefaultOverlap, 0, SmallOverlap, 0 - SmallOverlap}

\* The fileNames: the second is a chunk id of the first.
ChunkFileNames == {"a.txt", "a.txt_chunk_1"}

\* createChunks(content, {fileName}, chunkSize, overlap) is called with the
\* arguments drawn at the start.
CreateChunksCall ==
  /\ ~chunking.done
  /\ chunking' =
       [chunking EXCEPT
          !.done = TRUE,
          !.chunks = CreateChunksWith(chunking.content, chunking.fileName,
                                      chunking.chunkSize, chunking.overlap)]
  /\ UNCHANGED <<manifest, vectorStore, documents, isInitialized,
                 ragIsInitialized, stats, calls, started, upload, lastSearch, loading>>

InitChunks ==
  /\ manifest = [kind |-> "array", files |-> <<>>]
  /\ InitState
  /\ chunking \in
       {[done |-> FALSE, content |-> t, fileName |-> f, chunkSize |-> n,
         overlap |-> o, chunks |-> <<>>] :
          t \in ChunkTexts, f \in ChunkFileNames, n \in ChunkSizes,
          o \in Overlaps}

NextChunks == CreateChunksCall

SpecChunks == InitChunks /\ [][NextChunks]_vars

(***************************************************************************)
(* Concurrent initialization                                               *)
(***************************************************************************)
\* The calls that are inside loadAssetsDocuments(): past the clear, awaiting
\* the manifest or a file.
InFlight == {c \in Slots : calls[c].pc \in LoadingPcs}

\* C1: at most one full initialization is in flight at any time: a call
\* that arrives while an earlier initialize() has not completed awaits that
\* run and starts no second discovery/clear/ingest run.
OneInitializationInFlight == Cardinality(InFlight) <= 1

RECURSIVE LoadAll(_)
\* The documents one run of loadAssetsDocuments() returns for a listing.
LoadAll(files) ==
  IF Len(files) = 0 THEN <<>>
  ELSE LoadFile(files[1]).docs \o LoadAll(Tail(files))

\* The processor after one initialization of an empty one over the manifest.
SingleRun ==
  ProcessAll(EmptyProcessor,
             LoadAll(IF manifest.kind = "array" THEN manifest.files ELSE <<>>))

\* Every call that was started has returned, and there was one.
AllReturned ==
  /\ started > 0
  /\ \A c \in Slots : calls[c].pc \in {"idle", "done"}

\* C2: once every overlapping initialize()/searchDocuments() call has
\* returned, the document list holds exactly one record per successfully
\* extracted discovered file, totalDocuments is the number of such files,
\* and the index holds exactly their chunks.
ConvergeToSingleState ==
  AllReturned /\ ragIsInitialized =>
    /\ documents = SingleRun.documents
    /\ vectorStore = SingleRun.vectorStore
    /\ stats.totalDocuments = Len(SingleRun.documents)

(***************************************************************************)
(* Uploaded documents and the assistant's index                            *)
(***************************************************************************)
\* The processFiles() calls that have completed.
Uploaded ==
  {r \in DOMAIN upload.runs :
     upload.runs[r].from = "dialog" /\ upload.runs[r].pc = "done"}

\* The chunks of the uploader's run that share a keyword with the query.
UploadedMatches(run, query) ==
  {run.vectorStore[k].chunk : k \in
     {j \in 1..Len(run.vectorStore) :
        Range(run.vectorStore[j].keywords)
          \cap Range(ExtractKeywords(query)) # {}}}

\* The result is the chunk.
IsChunk(result, chunk) ==
  /\ result.fileName = chunk.fileName
  /\ result.chunkIndex = chunk.chunkIndex
  /\ result.content = chunk.content

\* C3: documents uploaded through the uploader are usable at once: every
\* searchDocuments() called after processFiles() has completed returns,
\* with room left under topK, the uploaded chunks that share a keyword with
\* its query.
UploadedChunksSearchable ==
  \A c \in Slots, r \in Uploaded :
    (/\ calls[c].kind = "search"
     /\ calls[c].pc = "done"
     /\ calls[c].order > upload.runs[r].doneAt
     /\ Len(calls[c].ret.results) < calls[c].topK)
    => \A chunk \in UploadedMatches(upload.runs[r], calls[c].query.v) :
         \E j \in 1..Len(calls[c].ret.results) :
           IsChunk(calls[c].ret.results[j], chunk)

(***************************************************************************)
(* The tool handler's three statuses                                       *)
(***************************************************************************)
\* The search_documents calls that have returned.
ToolDone == {c \in Slots : calls[c].kind = "tool" /\ calls[c].pc = "done"}

\* C4: the search_documents handler never throws and returns exactly one of
\* three statuses: "success", with document_content, sources and summary,
\* exactly when the search returned at least one result, "no_results"
\* exactly when it returned none, and "error", with a message, exactly when
\* the search raised an exception.
ToolStatusContract ==
  \A c \in ToolDone :
    LET out == calls[c].out
        ret == calls[c].ret
    IN /\ ret.kind = "response"
       /\ ret.response.status \in {"success", "no_results", "error"}
       /\ (ret.response.status = "success")
            = (out.kind = "results" /\ Len(out.results) >= 1)
       /\ (ret.response.status = "no_results")
            = (out.kind = "results" /\ Len(out.results) = 0)
       /\ (ret.response.status = "error") = (out.kind = "threw")
       /\ ret.response.status = "success" =>
            /\ {"document_content", "sources", "summary"}
                 \subseteq DOMAIN ret.response
            /\ Len(ret.response.sources) = Len(out.results)
       /\ ret.response.status = "error" =>
            ret.response.message = out.message

\* A handler whose search threw and one whose search found nothing have
\* both returned.
ToolStatusSeen ==
  /\ \E c \in ToolDone : calls[c].ret.response.status = "error"
  /\ \E c \in ToolDone : calls[c].ret.response.status = "no_results"

(***************************************************************************)
(* Partial failure of a batch                                              *)
(***************************************************************************)
\* The file's fetch failed: it rejected, or answered without success.
FetchFailed(fileName) == LoadFile(fileName).outcome \in {"threw", "notok"}

\* Some document of docs is the file's.
HasRecord(docs, fileName) ==
  \E j \in 1..Len(docs) : docs[j].fileName = fileName

\* An uploaded file whose extraction gives text that is not blank.
UploadHasText(name) ==
  LET content == ExtractTextFromFile(UploadedFile(name), name)
  IN Truthy(content) /\ Trim(content.v) # ""

\* The processUploadedFiles() calls that have returned.
Returned == {r \in DOMAIN upload.runs : upload.runs[r].pc = "done"}

\* C5: in a batch, a fetch failure, a non-success response or an extraction
\* exception for one file never keeps the remaining files from being
\* processed, and no exception escapes the ingestion call: a finished run
\* of loadAssetsDocuments has visited every listed file and holds every
\* file that loads, a finished upload holds every file with text, and the
\* calls return normally.
PartialFailure ==
  /\ \A c \in Slots :
       calls[c].loaded =>
         /\ calls[c].i = Len(calls[c].files) + 1
         /\ \A j \in 1..Len(calls[c].files) :
              LoadFile(calls[c].files[j]).outcome = "loaded"
                => HasRecord(calls[c].docs, calls[c].files[j])
         /\ calls[c].pc = "done" => calls[c].ret.kind \in {"stats", "results"}
  /\ \A r \in Returned :
       /\ ~upload.runs[r].threw
       /\ upload.runs[r].i = Len(upload.runs[r].files) + 1
       /\ \A j \in 1..Len(upload.runs[r].files) :
            UploadHasText(upload.runs[r].files[j])
              => HasRecord(upload.runs[r].documents, upload.runs[r].files[j])

\* A finished run whose listing has a file that failed to fetch before one
\* that loaded, and a returned processUploadedFiles() with the file mammoth
\* throws on before one with text.
PartialFailureSeen ==
  /\ \E c \in Slots :
       /\ calls[c].loaded
       /\ \E j, k \in 1..Len(calls[c].files) :
            /\ j < k
            /\ FetchFailed(calls[c].files[j])
            /\ HasRecord(calls[c].docs, calls[c].files[k])
  /\ \E r \in Returned :
       /\ upload.runs[r].files = <<"broken.docx", "guide.docx">>
       /\ HasRecord(upload.runs[r].documents, "guide.docx")

\* Text extraction errors on the file: mammoth throws on it.
ExtractionErrors(fileName) ==
  /\ ToLowerCase(FileExt(fileName)) \in {"docx", "doc"}
  /\ Disk[fileName].mammoth = "throws"

\* C6: a document whose text extraction errors, or whose extracted text is
\* empty or blank, is skipped: it adds no record to the document list and no
\* entry to the index, for every supported format.
SkipFailedExtraction ==
  /\ \A r \in Returned :
       \A j \in 1..Len(upload.runs[r].files) :
         (\/ ExtractionErrors(upload.runs[r].files[j])
          \/ Trim(Disk[upload.runs[r].files[j]].body) = "")
           => /\ ~HasRecord(upload.runs[r].documents, upload.runs[r].files[j])
              /\ \A k \in 1..Len(upload.runs[r].vectorStore) :
                   upload.runs[r].vectorStore[k].chunk.fileName
                     # upload.runs[r].files[j]
  /\ \A c \in Slots :
       calls[c].loaded =>
         \A j \in 1..Len(calls[c].files) :
           ExtractionErrors(calls[c].files[j])
             => ~HasRecord(documents, calls[c].files[j])

(***************************************************************************)
(* Search results                                                          *)
(***************************************************************************)
\* The keywords of the last query, as a set.
QueryWords == Range(ExtractKeywords(lastSearch.query))

\* The entries of the index that share a keyword with the last query.
Matching ==
  {j \in 1..Len(vectorStore) : Range(vectorStore[j].keywords) \cap QueryWords # {}}

\* The last search's results, and their ids.
Results == lastSearch.results

ResultIds == {Results[j].id : j \in 1..Len(Results)}

\* The fraction x is more than the fraction y.
More(x, y) == x.num * y.den > y.num * x.den

\* C7: for every index, query and topK = K >= 1 (5 by default),
\* searchChunks returns exactly min(K, number of indexed chunks with a
\* score above 0) results.
ResultLength ==
  lastSearch.done /\ lastSearch.topK >= 1 =>
    Len(Results) = MinOf(lastSearch.topK, Cardinality(Matching))

\* A search that found more chunks than the topK it was asked for.
ResultLengthCut ==
  /\ lastSearch.done
  /\ lastSearch.topK >= 1
  /\ Cardinality(Matching) > lastSearch.topK
  /\ Len(Results) = lastSearch.topK

\* C8: in the results of a search the relevance never rises from a position
\* to a later one, and no chunk left out of the top K is more relevant than
\* a returned one.
MonotonicRanking ==
  lastSearch.done =>
    /\ \A i, j \in 1..Len(Results) :
         i < j => ~More(Results[j].relevance, Results[i].relevance)
    /\ \A k \in 1..Len(vectorStore) :
         vectorStore[k].id \notin ResultIds =>
           \A i \in 1..Len(Results) :
             ~More(CalculateRelevance(ExtractKeywords(lastSearch.query),
                                      vectorStore[k].keywords),
                   Results[i].relevance)

\* Results of two relevances, with a matching chunk left out.
MonotonicRankingSeen ==
  /\ lastSearch.done
  /\ Len(Results) >= 2
  /\ More(Results[1].relevance, Results[Len(Results)].relevance)
  /\ \E k \in Matching : vectorStore[k].id \notin ResultIds

\* C9: a chunk is in the results only if its relevance is above 0: a chunk
\* whose keywords are disjoint from the query's is never in them, whatever
\* the topK.
OnlyPositive ==
  lastSearch.done =>
    /\ \A i \in 1..Len(Results) : Results[i].relevance.num > 0
    /\ \A k \in 1..Len(vectorStore) :
         k \notin Matching => vectorStore[k].id \notin ResultIds

\* A search with results over an index that also holds a chunk sharing no
\* keyword with the query.
OnlyPositiveSeen ==
  /\ lastSearch.done
  /\ Len(Results) >= 1
  /\ \E k \in 1..Len(vectorStore) : k \notin Matching

\* C10: the relevance of a chunk for a query is |Q \cap C| / max(|Q|, 1),
\* between 0 and 1; a query without keywords scores 0 on every chunk,
\* nothing is divided by zero, and its search returns nothing.
RelevanceFormula ==
  lastSearch.done =>
    /\ \A k \in 1..Len(vectorStore) :
         LET rel == CalculateRelevance(ExtractKeywords(lastSearch.query),
                                       vectorStore[k].keywords)
         IN /\ rel.num = Cardinality(QueryWords \cap Range(vectorStore[k].keywords))
            /\ rel.den = MaxOf(Cardinality(QueryWords), 1)
            /\ 0 <= rel.num /\ rel.num <= rel.den
            /\ QueryWords = {} => rel.num = 0
            /\ \A i \in 1..Len(Results) :
                 Results[i].id = vectorStore[k].id => Results[i].relevance = rel
    /\ QueryWords = {} => Results = <<>>

\* A search with a query of stopwords and short tokens only, over an index
\* that holds chunks.
RelevanceNoKeywords ==
  /\ lastSearch.done
  /\ QueryWords = {}
  /\ Len(vectorStore) >= 2
  /\ Results = <<>>


(***************************************************************************)
(* Re-indexing a chunk id                                                  *)
(***************************************************************************)
\* The documents whose processDocument call this step can be: the record
\* added last has the document's fileName and the start of its content.
LastProcessed ==
  {doc \in DocPool \cup Range(SampleDocuments) :
     /\ Len(documents') = Len(documents) + 1
     /\ documents'[Len(documents')].fileName = doc.fileName
     /\ documents'[Len(documents')].content = Preview(doc.content)}

\* The places of the index that hold the id.
PlacesOf(store, id) == {k \in 1..Len(store) : store[k].id = id}

\* C11: indexing is idempotent per chunk id: after addToVectorStore has
\* stored a chunk whose id was already in the index, the index holds exactly
\* one entry for that id, with the content and keywords of the latest
\* chunk, and every entry with another id is unchanged.  Every step that
\* changes the index is one processDocument call, also within
\* loadSampleDocuments.
IdempotentIndexing ==
  [][ documents' # documents \/ vectorStore' # vectorStore =>
        \E doc \in LastProcessed :
          LET chunks == Range(CreateChunks(doc.content, doc.fileName))
              ids == {chunk.id : chunk \in chunks}
          IN /\ \A chunk \in chunks :
                  /\ Cardinality(PlacesOf(vectorStore', chunk.id)) = 1
                  /\ \A k \in PlacesOf(vectorStore', chunk.id) :
                       /\ vectorStore'[k].chunk = chunk
                       /\ vectorStore'[k].keywords
                            = ExtractKeywords(chunk.content)
             /\ \A k \in 1..Len(vectorStore) :
                  vectorStore[k].id \notin ids
                    => vectorStore'[k] = vectorStore[k]
             /\ Len(vectorStore')
                  = Len(vectorStore)
                      + Cardinality({id \in ids : PlacesOf(vectorStore, id) = {}})
    ]_vars

\* Two versions of one file have been processed, other files are indexed,
\* and each id has one entry.
IdempotentIndexingSeen ==
  /\ \E i, j \in 1..Len(documents) :
       /\ i < j
       /\ documents[i].fileName = documents[j].fileName
       /\ documents[i].content # documents[j].content
  /\ \E k \in 1..Len(vectorStore) :
       vectorStore[k].chunk.fileName # documents[Len(documents)].fileName
  /\ \A k \in 1..Len(vectorStore) :
       Cardinality(PlacesOf(vectorStore, vectorStore[k].id)) = 1


(***************************************************************************)
(* The chunks of one createChunks call                                     *)
(***************************************************************************)
\* The chunks the call returned.
Chunks == chunking.chunks

\* The ASCII characters with a glyph, U+0021 to U+007E (but U+0060, which
\* a string here cannot hold).  trim() removes none of them, whatever else
\* it removes.
Visible ==
  LET glyphs == "!#$%&'()*+,-./0123456789:;<=>?@ABCDEFGHIJKLMNOPQRSTUVWXYZ"
                  \o "[]^_abcdefghijklmnopqrstuvwxyz{|}~"
  IN {SubSeq(glyphs, i, i) : i \in 1..Len(glyphs)} \cup {"\"", "\\"}

\* C12: every chunk createChunks produces, for every text, chunkSize and
\* overlap, has a content that is not empty after trimming: the content
\* holds a character that trim() does not remove, and it starts and ends
\* with one, as a trimmed text does.
ChunkContentNotEmpty ==
  chunking.done =>
    \A j \in 1..Len(Chunks) :
      LET content == Chunks[j].content
      IN /\ \E n \in 1..Len(content) : SubSeq(content, n, n) \in Visible
         /\ Len(content) > 0
         /\ SubSeq(content, 1, 1) \in Visible
         /\ SubSeq(content, Len(content), Len(content)) \in Visible

\* A call that cut a text into several chunks with a negative overlap, which
\* drops the leading words of the pushed chunk.
ChunkContentSeen ==
  /\ chunking.done
  /\ chunking.overlap < 0
  /\ Len(Chunks) >= 3


\* The ids of the chunks createChunks gives the same content under another
\* fileName.
IdsUnder(fileName) ==
  LET other == CreateChunksWith(chunking.content, fileName,
                                chunking.chunkSize, chunking.overlap)
  IN {other[j].id : j \in 1..Len(other)}

\* C13: the chunks of one createChunks call are numbered in reading order:
\* the i-th has chunkIndex i and id "<fileName>_chunk_<i>", so the ids of a
\* document are pairwise distinct and chunks of documents with different
\* fileNames never share an id.
ChunkNumbering ==
  chunking.done =>
    /\ \A i \in 1..Len(Chunks) :
         /\ Chunks[i].chunkIndex = i
         /\ Chunks[i].id = chunking.fileName \o "_chunk_" \o ToString(i)
         /\ Chunks[i].fileName = chunking.fileName
    /\ \A i, j \in 1..Len(Chunks) : i # j => Chunks[i].id # Chunks[j].id
    /\ \A f \in ChunkFileNames \ {chunking.fileName} :
         \A i \in 1..Len(Chunks) : Chunks[i].id \notin IdsUnder(f)

\* A call that returned several chunks for the fileName that is itself a
\* chunk id of the other fileName.
ChunkNumberingSeen ==
  /\ chunking.done
  /\ chunking.fileName = "a.txt_chunk_1"
  /\ Len(Chunks) >= 3
  /\ IdsUnder("a.txt") # {}


\* C14: within one document pageNum never falls along the chunk sequence,
\* and every pageNum is at least 1.
PageNumMonotonic ==
  chunking.done =>
    /\ \A i \in 1..Len(Chunks) : Chunks[i].pageNum >= 1
    /\ \A i, j \in 1..Len(Chunks) :
         i < j => Chunks[i].pageNum <= Chunks[j].pageNum

\* A call whose page counter moved between two chunks and moved again.
PageNumMoved ==
  /\ chunking.done
  /\ Len(Chunks) >= 3
  /\ Chunks[1].pageNum = 1
  /\ \E i \in 1..Len(Chunks) : Chunks[i].pageNum = 2
  /\ Chunks[Len(Chunks)].pageNum >= 3


\* The text occurs in the content.
Occurs(text, content) ==
  \E k \in 1..(Len(content) - Len(text) + 1) :
    SubSeq(content, k, k + Len(text) - 1) = text

\* The trimmed sentences of the call's content, in order.
InputSentences ==
  LET raw == Sentences(chunking.content)
  IN [i \in 1..Len(raw) |-> Trim(raw[i])]

\* The chunks from the given one on that hold the sentence.
HoldersFrom(sentence, from) ==
  {c \in from..Len(Chunks) : Occurs(sentence, Chunks[c].content)}

RECURSIVE PlacedInOrder(_, _)
\* Sentences i and later can each be found in a chunk, none in a chunk
\* before the one of the sentence ahead of it; from is the chunk of the
\* sentence ahead of sentence i.
PlacedInOrder(i, from) ==
  IF i > Len(InputSentences) THEN TRUE
  ELSE LET holders == HoldersFrom(InputSentences[i], from)
       IN /\ holders # {}
          /\ PlacedInOrder(i + 1, Min(holders))

\* No sentence of the call's content occurs in another of its sentences:
\* no sentence is repeated and none is a part of another.
SentencesApart ==
  \A i, j \in 1..Len(InputSentences) :
    i # j => ~Occurs(InputSentences[i], InputSentences[j])

\* The first chunk that holds sentence i.
FirstHolder(i) == Min(HoldersFrom(InputSentences[i], 1))

\* Every sentence occurs in a chunk, and the first chunks that hold the
\* sentences come in the order of the sentences.
FirstOccurrencesOrdered ==
  /\ \A i \in 1..Len(InputSentences) :
       HoldersFrom(InputSentences[i], 1) # {}
  /\ \A i, j \in 1..Len(InputSentences) :
       i < j => FirstHolder(i) <= FirstHolder(j)

(***************************************************************************)
(* Statistics                                                              *)
(***************************************************************************)
\* getStats() on the service's processor now.
StatsNow == GetStats(vectorStore, documents)

\* The calls that searched and returned, the query given.
Searched ==
  {c \in Slots : /\ calls[c].kind \in {"search", "tool"}
                 /\ calls[c].pc = "done"
                 /\ calls[c].query.def}

\* C16: getStats() reports totalDocuments = the number of records in the
\* document list and totalChunks = the number of entries in the index; on an
\* engine into which nothing has been ingested it returns zeros and an empty
\* list, every search returns an empty sequence, and the tool handler maps
\* that to the status no_results.
StatsAreCounts ==
  /\ StatsNow.totalDocuments = Len(documents)
  /\ StatsNow.totalChunks = Len(vectorStore)
  /\ Len(StatsNow.documents) = Len(documents)
  /\ \A j \in 1..Len(documents) :
       /\ StatsNow.documents[j].fileName = documents[j].fileName
       /\ StatsNow.documents[j].chunks = documents[j].chunks
  /\ ragIsInitialized => stats = StatsNow
  /\ (documents = <<>> /\ vectorStore = <<>>) =>
       /\ StatsNow = [totalDocuments |-> 0, totalChunks |-> 0,
                      documents |-> <<>>]
       /\ \A c \in Searched :
            /\ calls[c].out = [kind |-> "results", results |-> <<>>]
            /\ calls[c].kind = "tool"
                 => calls[c].ret.response.status = "no_results"

\* An initialized service that ingested nothing, with cached zeros, on
\* which a search and a tool call have returned.
StatsOfNothing ==
  /\ ragIsInitialized
  /\ documents = <<>> /\ vectorStore = <<>>
  /\ stats.totalDocuments = 0 /\ stats.totalChunks = 0
  /\ \E c \in Searched : calls[c].kind = "tool"
  /\ \E c \in Searched : calls[c].kind = "search"


(***************************************************************************)
(* Re-ingesting a fileName                                                 *)
(***************************************************************************)
\* The number of chunks of the version of the file processed last.
LatestChunks(fileName) ==
  LET at == {j \in 1..Len(documents) : documents[j].fileName = fileName}
  IN IF at = {} THEN 0 ELSE documents[Max(at)].chunks

\* C17: re-ingesting a fileName replaces the earlier document: once a
\* document with an already ingested fileName has been processed again, no
\* search returns a chunk built from the earlier version's text, also when
\* the new version has fewer chunks than the old one.
ReingestReplaces ==
  lastSearch.done =>
    \A j \in 1..Len(Results) :
      Results[j].chunkIndex <= LatestChunks(Results[j].fileName)


(***************************************************************************)
(* Initialization and discovery failures                                   *)
(***************************************************************************)
\* The initialize() calls that have returned.
InitDone == {c \in Slots : calls[c].kind = "init" /\ calls[c].pc = "done"}

\* C18: initialization never fails: whatever the manifest request, the
\* fetches and the extractions give, initialize() returns stats without
\* throwing and leaves isInitialized true on the processor and the service;
\* when discovery fails the engine is initialized with zero documents and
\* zero chunks.
InitializeNeverFails ==
  /\ \A c \in Slots :
       calls[c].loaded => isInitialized /\ ragIsInitialized
  /\ \A c \in InitDone :
       /\ calls[c].ret.kind = "stats"
       /\ calls[c].ret.stats = stats
       /\ isInitialized /\ ragIsInitialized
       /\ manifest.kind # "array" =>
            /\ calls[c].ret.stats
                 = [totalDocuments |-> 0, totalChunks |-> 0, documents |-> <<>>]
            /\ documents = <<>>
            /\ vectorStore = <<>>

\* An initialize() that returned after the manifest request failed.
InitializedEmpty ==
  /\ manifest.kind = "neterr"
  /\ \E c \in InitDone : calls[c].loaded /\ calls[c].ret.stats.totalDocuments = 0


(***************************************************************************)
(* Lazy initialization by a search                                         *)
(***************************************************************************)
\* The searchDocuments() calls and tool calls with a query that have read
\* the index.
Answered ==
  {c \in Slots : /\ calls[c].kind \in {"search", "tool"}
                 /\ calls[c].query # Nothing
                 /\ calls[c].pc \in {"delay", "done"}}

\* C19: searchDocuments() before any initialization initializes lazily
\* instead of failing: the call reads the index only after an
\* initialization run has completed, so what it gets is the search over a
\* completely ingested index, never over a cleared or half-filled one, and
\* it returns results rather than throwing.
LazyInitializationThenSearch ==
  \A c \in Answered :
    /\ ragIsInitialized
    /\ calls[c].out.kind = "results"
    /\ calls[c].out
         = SearchDocuments(SingleRun.vectorStore, calls[c].query, calls[c].topK)

\* A search that initialized the service itself has returned chunks while
\* another call's initialization run is still in flight.
LazySearchAnswered ==
  \E c \in Answered, d \in Slots :
    /\ calls[c].kind = "search"
    /\ calls[c].loaded
    /\ calls[c].pc = "done"
    /\ Len(calls[c].out.results) > 0
    /\ calls[d].pc \in LoadingPcs


(***************************************************************************)
(* Search as a read                                                        *)
(***************************************************************************)
\* What the service and its processor hold.
ServiceState == <<vectorStore, documents, isInitialized, ragIsInitialized, stats>>

\* This step is a searchDocuments() or tool call served by the initialized
\* service, or the return of such a tool call.
ServedSearchStep ==
  \E c \in Slots :
    /\ calls'[c].kind \in {"search", "tool"}
    /\ \/ /\ ragIsInitialized
          /\ started' = started + 1
          /\ calls'[c].order = started'
       \/ calls[c].pc = "delay" /\ calls'[c].pc = "done"

\* This step belongs to an initialization: a call enters the uninitialized
\* service, or a run gets its manifest or a file.
InitializationStep ==
  \/ ~ragIsInitialized /\ started' = started + 1
  \/ \E c \in Slots : calls[c].pc \in LoadingPcs /\ calls'[c] # calls[c]

\* C20: search is side-effect-free: searchChunks leaves the index and the
\* document list as they are, searchDocuments on an initialized service
\* leaves the index, the document list, both isInitialized flags and the
\* cached stats as they are, and only initialization steps change them.
SearchIsSideEffectFree ==
  [][/\ ServedSearchStep => UNCHANGED ServiceState
     /\ ServiceState' # ServiceState => InitializationStep]_vars

\* A search was served by the initialized service, which keeps its index.
SearchServed ==
  \E c \in Slots :
    /\ calls[c].kind = "search"
    /\ calls[c].pc = "done"
    /\ ~calls[c].loaded
    /\ Len(calls[c].out.results) > 0
    /\ ragIsInitialized
    /\ vectorStore = SingleRun.vectorStore
    /\ vectorStore # <<>>


(***************************************************************************)
(* Unsupported formats: files handed to the upload dialog and to           *)
(* processUploadedFiles                                                    *)
(***************************************************************************)
\* The file names with a document record in the run, and those with an
\* index entry.
Recorded(run) == {run.documents[j].fileName : j \in 1..Len(run.documents)}

Indexed(run) ==
  {run.vectorStore[j].chunk.fileName : j \in 1..Len(run.vectorStore)}

\* C21: a file whose extension, compared case-insensitively, is none of
\* pdf, docx, doc, txt is rejected: the dialog does not take it,
\* extractTextFromFile gives no content for it, the file gets no document
\* record and no index entry, and the batch goes on without an error: the
\* supported files around it that have text are recorded.
UnsupportedRejected ==
  /\ \A j \in 1..Len(upload.uploadedFiles) : Supported(upload.uploadedFiles[j])
  /\ \A r \in Returned :
       /\ ~upload.runs[r].threw
       /\ \A j \in 1..Len(upload.runs[r].files) :
            LET name == upload.runs[r].files[j]
                content == ExtractTextFromFile(DroppedFile(name), name)
            IN IF Supported(name)
                 THEN Truthy(content) /\ Len(Trim(content.v)) > 0
                        => /\ name \in Recorded(upload.runs[r])
                           /\ name \in Indexed(upload.runs[r])
                 ELSE /\ content = Nothing
                      /\ name \notin Recorded(upload.runs[r])
                      /\ name \notin Indexed(upload.runs[r])

\* A batch went through with an unsupported file first and a supported
\* one, in upper case, after it, and the dialog has taken a file with a
\* mixed-case extension.
UnsupportedSkipped ==
  /\ upload.uploadedFiles = <<"letter.Doc">>
  /\ \E r \in Returned :
       /\ upload.runs[r].files = <<"README", "faq.TXT">>
       /\ Recorded(upload.runs[r]) = {"faq.TXT"}


(***************************************************************************)
(* A document that fits in one chunk                                       *)
(***************************************************************************)
\* The words of a text: its pieces between white space.
WordCount(text) ==
  Len(SelectSeq(SplitOn(text, WhiteSpace), LAMBDA w : w # ""))

\* The text has no sentence-ending punctuation.
NoPunctuation(text) ==
  \A i \in 1..Len(text) : Chr(text, i) \notin SentenceEnd

\* The sentences of the text, trimmed and joined by single spaces.
JoinedSentences(text) ==
  LET s == Sentences(text) IN Join([i \in 1..Len(s) |-> Trim(s[i])], " ")

\* The call is one of a text with a sentence in it that has no punctuation
\* or whose joined sentences fit in chunkSize.
FitsOneChunk ==
  /\ chunking.done
  /\ Sentences(chunking.content) # <<>>
  /\ \/ NoPunctuation(chunking.content)
     \/ Len(JoinedSentences(chunking.content)) <= chunking.chunkSize

\* The queries with a keyword, all of whose keywords the chunk has.
CoveredQueries(chunk) ==
  {q \in Queries :
     /\ ExtractKeywords(q) # <<>>
     /\ Range(ExtractKeywords(q)) \subseteq Range(ExtractKeywords(chunk.content))}

\* C22: a document with text and no sentence-ending punctuation, or whose
\* joined sentences fit in chunkSize, gives exactly one chunk, with id
\* "<fileName>_chunk_1" and chunkIndex 1; if the document has at most 300
\* words the chunk has pageNum 1, and a query all of whose keywords occur
\* in it returns it with relevance 1 and source "<fileName> (Page 1)".
SingleChunkDocument ==
  FitsOneChunk =>
    /\ Len(Chunks) = 1
    /\ Chunks[1].id = chunking.fileName \o "_chunk_1"
    /\ Chunks[1].chunkIndex = 1
    /\ WordCount(chunking.content) <= PageWords =>
         /\ Chunks[1].pageNum = 1
         /\ \A q \in CoveredQueries(Chunks[1]) :
              LET found == SearchChunks(AddToVectorStore(<<>>, Chunks), q,
                                        DefaultTopK)
              IN /\ Len(found) = 1
                 /\ found[1].id = Chunks[1].id
                 /\ found[1].relevance.num = found[1].relevance.den
                 /\ found[1].source = chunking.fileName \o " (Page 1)"


(***************************************************************************)
(* When the chunker emits                                                  *)
(***************************************************************************)
\* The loop state of the finished call before its sentence i.
BufferBefore(i) ==
  ChunkLoop([chunks |-> <<>>, currentChunk |-> "", pageNum |-> 1],
            SubSeq(Sentences(chunking.content), 1, i - 1), 1,
            chunking.fileName, chunking.chunkSize, chunking.overlap)

\* The loop emitted a chunk at sentence i.
EmittedAt(i) == Len(BufferBefore(i + 1).chunks) > Len(BufferBefore(i).chunks)

\* The buffer with sentence i appended to it:
\* currentChunk + (currentChunk ? ' ' : '') + sentence.
Appended(i) ==
  LET currentChunk == BufferBefore(i).currentChunk
  IN currentChunk \o (IF currentChunk # "" THEN " " ELSE "")
       \o Trim(Sentences(chunking.content)[i])

\* The first k sentences, trimmed and joined: a buffer grown by appending
\* alone.
FirstJoined(k) ==
  LET s == Sentences(chunking.content)
  IN Join([i \in 1..k |-> Trim(s[i])], " ")

\* C23: the chunker emits the running buffer exactly when the buffer is
\* not empty and appending the next sentence would take its length past
\* chunkSize; so a chunk made of two or more sentences appended to an empty
\* buffer has at most chunkSize characters.
EmitWhenFull ==
  chunking.done =>
    /\ \A i \in 1..Len(Sentences(chunking.content)) :
         EmittedAt(i) <=>
           /\ BufferBefore(i).currentChunk # ""
           /\ Len(Appended(i)) > chunking.chunkSize
    /\ \A k \in 2..Len(Sentences(chunking.content)) :
         Chunks # <<>> /\ Chunks[1].content = FirstJoined(k)
           => Len(Chunks[1].content) <= chunking.chunkSize


(***************************************************************************)
(* The overlap carried into a new buffer                                   *)
(***************************************************************************)
\* The last k of the words, all of them when there are no more than k.
LastWords(words, k) ==
  SubSeq(words, Len(words) - MinOf(k, Len(words)) + 1, Len(words))

\* The buffer a split at sentence i is to leave: the last floor(overlap/5)
\* words of the buffer just emitted, then the sentence.
SeededBuffer(i) ==
  Join(LastWords(SplitChar(BufferBefore(i).currentChunk, " "),
                 chunking.overlap \div 5), " ")
    \o " " \o Trim(Sentences(chunking.content)[i])

\* C24: for every overlap >= 0, after a split the new buffer is the last
\* floor(overlap/5) words of the chunk just emitted followed by the
\* sentence that caused the split: no word of the previous chunk when
\* overlap < 5, the whole previous chunk only when it has no more than
\* floor(overlap/5) words.
OverlapSeed ==
  chunking.done /\ chunking.overlap >= 0 =>
    \A i \in 1..Len(Sentences(chunking.content)) :
      EmittedAt(i) => BufferBefore(i + 1).currentChunk = SeededBuffer(i)


(***************************************************************************)
(* The last chunk                                                          *)
(***************************************************************************)
\* The text is empty or holds white space and sentence punctuation only.
BlankInput(text) ==
  \A i \in 1..Len(text) : Chr(text, i) \in WhiteSpace \cup SentenceEnd

\* The text ends with the piece.
EndsWith(text, piece) ==
  /\ Len(piece) <= Len(text)
  /\ SubSeq(text, Len(text) - Len(piece) + 1, Len(text)) = piece

\* The last sentence of the call's text, trimmed.
LastSentence ==
  LET s == Sentences(chunking.content) IN Trim(s[Len(s)])

\* C25: createChunks has no error outcome: an empty, blank or
\* punctuation-only text gives no chunk; for any other text what the buffer
\* holds after the last sentence is emitted as the last chunk, whatever its
\* size, so the last chunk holds the last sentence of the document.
LastChunkEmitted ==
  chunking.done =>
    IF BlankInput(chunking.content)
      THEN Chunks = <<>>
      ELSE /\ Chunks # <<>>
           /\ Chunks[Len(Chunks)].content
                = Trim(BufferBefore(Len(Sentences(chunking.content)) + 1).currentChunk)
           /\ EndsWith(Chunks[Len(Chunks)].content, LastSentence)

\* A call whose last chunk, after others, is longer than chunkSize.
LastChunkOversize ==
  /\ chunking.done
  /\ Len(Chunks) >= 2
  /\ chunking.chunkSize > 0
  /\ Len(Chunks[Len(Chunks)].content) > chunking.chunkSize


(***************************************************************************)
(* The document list on re-ingestion                                       *)
(***************************************************************************)
\* This step is a processDocument call: it changes the index or the
\* document list, it is a turn of loadSampleDocuments' loop, or it follows
\* a search.
ProcessDocumentStep ==
  \/ vectorStore' # vectorStore
  \/ documents' # documents
  \/ loading' # loading
  \/ lastSearch.done /\ ~lastSearch'.done

\* C26: re-ingesting a recorded fileName with non-empty text appends a
\* record to the document list and replaces none: every processDocument
\* call of a text, made by a caller or by loadSampleDocuments, adds
\* exactly one to totalDocuments and leaves every earlier record as it was.
ReingestAppends ==
  [][ProcessDocumentStep =>
        /\ Len(documents') = Len(documents) + 1
        /\ SubSeq(documents', 1, Len(documents)) = documents
        /\ GetStats(vectorStore', documents').totalDocuments
             = GetStats(vectorStore, documents).totalDocuments + 1]_vars

\* The list holds two records of one fileName, made from different texts.
TwoRecordsOfOneFile ==
  \E i, j \in 1..Len(documents) :
    /\ i < j
    /\ documents[i].fileName = documents[j].fileName
    /\ documents[i].content # documents[j].content


(***************************************************************************)
(* Ties                                                                    *)
(***************************************************************************)
\* The place of the chunk id in the index: Map iteration order, which is
\* the order of first insertion.
PlaceOf(id) == Min(PlacesOf(vectorStore, id))

\* Two results have the same relevance.
SameRelevance(a, b) ==
  a.relevance.num * b.relevance.den = b.relevance.num * a.relevance.den

(* Keywords                                                                *)
(***************************************************************************)
\* The characters a keyword may hold: lower-case letters, digits and the
\* underscore.
KeywordChars ==
  {Chr(LowerLetters, i) : i \in 1..Len(LowerLetters)}
    \cup {Chr(Digits, i) : i \in 1..Len(Digits)} \cup {"_"}

\* Each capital letter followed by its small letter.
LetterPairs == "AaBbCcDdEeFfGgHhIiJjKkLlMmNnOoPpQqRrSsTtUuVvWwXxYyZz"

\* The small letter of each capital letter.
SmallOf ==
  [c \in {SubSeq(LetterPairs, 2 * i - 1, 2 * i - 1) : i \in 1..26} |->
     LET i == CHOOSE n \in 1..26 : SubSeq(LetterPairs, 2 * n - 1, 2 * n - 1) = c
     IN SubSeq(LetterPairs, 2 * i, 2 * i)]

RECURSIVE FoldedWord(_)
\* The word with its capital letters made small and without the
\* characters that are neither letters, digits nor the underscore.
FoldedWord(w) ==
  IF Len(w) = 0 THEN ""
  ELSE IF Len(w) = 1
    THEN IF w \in KeywordChars THEN w
         ELSE IF w \in DOMAIN SmallOf THEN SmallOf[w] ELSE ""
  ELSE LET h == Len(w) \div 2
       IN FoldedWord(SubSeq(w, 1, h)) \o FoldedWord(SubSeq(w, h + 1, Len(w)))

\* The tokens of a text, taken word by word: the text is cut at each of
\* its white space characters (space, tab, line feed, carriage return,
\* form feed, line tabulation), and each piece is folded, which also
\* drops a control character and joins the letters on its two sides.
\* This is the lower-cased, punctuation-stripped text cut at white space,
\* computed in the other order and with tables of its own.
FoldedWords(text) ==
  LET spacing == " \t\n\r\f"
      blanks == {SubSeq(spacing, n, n) : n \in 1..Len(spacing)}
  IN {FoldedWord(piece) : piece \in Range(SplitOn(text, blanks))}

\* kw is the keyword collection of the text.
KeywordsOf(kw, text) ==
  /\ \A i, j \in 1..Len(kw) : i # j => kw[i] # kw[j]
  /\ \A i \in 1..Len(kw) :
       /\ Len(kw[i]) > 2
       /\ kw[i] \notin StopWords
       /\ \A n \in 1..Len(kw[i]) : Chr(kw[i], n) \in KeywordChars
  /\ Range(kw) = {t \in FoldedWords(text) : Len(t) > 2 /\ t \notin StopWords}

\* C28: in every index entry and for every query the keywords that
\* extractKeywords gives hold no duplicate, no token of length <= 2, no
\* stopword, no upper-case or punctuation character, and every token of
\* the lower-cased, punctuation-stripped text that passes these filters.
KeywordsWellFormed ==
  /\ \A k \in 1..Len(vectorStore) :
       KeywordsOf(vectorStore[k].keywords, vectorStore[k].chunk.content)
  /\ lastSearch.done =>
       KeywordsOf(ExtractKeywords(lastSearch.query), lastSearch.query)

\* A query with an upper-case word, a stopword and punctuation was asked
\* of an index with an entry whose text repeats a keyword.
KeywordsFiltered ==
  /\ lastSearch.done
  /\ lastSearch.query = "Reset the PORTAL password?"
  /\ ExtractKeywords(lastSearch.query) = <<"reset", "portal", "password">>
  /\ \E k \in 1..Len(vectorStore) :
       Len(SelectSeq(SplitRuns(StripNonWord(ToLowerCase(vectorStore[k].chunk.content)),
                               WhiteSpace), IsKeyword))
         > Len(vectorStore[k].keywords)


(***************************************************************************)
(* The cached stats under overlapping calls                                *)
(***************************************************************************)
\* The initialize() calls that return in this step.
ReturningInit ==
  {c \in Slots : /\ calls'[c] # calls[c]
                 /\ calls'[c].kind = "init"
                 /\ calls'[c].pc = "done"}

\* C29: whenever RAGService.isInitialized is true the stats the service
\* has cached, and returns from initialize(), are not null and are the
\* stats of its DocumentProcessor at that moment, under every interleaving
\* of initialize and searchDocuments calls.
CachedStatsCurrent ==
  [][/\ ragIsInitialized' =>
          /\ stats' # Null
          /\ stats' = GetStats(vectorStore', documents')
     /\ \A c \in ReturningInit :
          /\ ragIsInitialized'
          /\ calls'[c].ret = [kind |-> "stats", stats |-> stats']]_vars

\* Two initialization runs have ended on the same processor, the second
\* after the service was initialized, and the cache counts the records of
\* both.
StatsAfterSecondRun ==
  /\ ragIsInitialized
  /\ AllReturned
  /\ Len(documents) > Len(SingleRun.documents)
  /\ stats # Null
  /\ stats.totalDocuments = Len(documents)


(***************************************************************************)
(* Chunk counts                                                            *)
(***************************************************************************)
\* C30: in every reachable state of a DocumentProcessor totalChunks, the
\* number of index entries, is the sum of the chunk counts that getStats()
\* lists per document.
ChunkCountsAddUp ==
  StatsNow.totalChunks = SumChunks(StatsNow.documents)

=============================================================================
